---------------------------- MODULE Spec2Model ----------------------------
(***************************************************************************)
(* A model of the finance tracker's client-side logic: the expense         *)
(* utilities (expenseUtils.js), the expense form (ExpenseForm with the     *)
(* Expenses page's update handler and the database service's addExpense),  *)
(* the Reports page's date filter and aggregates, and the category pages.  *)
(*                                                                         *)
(* JavaScript values are records [t, n, s]: t is the kind of the value, n  *)
(* its number (when t = "number"), s its characters (when t = "string").   *)
(* Strings that the code takes apart (dates, titles, the amount text) are  *)
(* sequences of one-character strings.  Amounts are whole currency units   *)
(* in the utilities and the reports, and hundredths in the expense form.   *)
(***************************************************************************)
EXTENDS Integers, Sequences, FiniteSets, TLC

VARIABLES
    input,              \* expenseUtils: the value passed as `expenses`
    utilOut,            \* expenseUtils: what the three totals returned
    candidate,          \* validateExpense: the object passed
    validation,         \* validateExpense: the value returned (or the throw)
    formMode,           \* Expenses page: which ExpenseForm modal is open
    form,               \* ExpenseForm: amount, title, category, date, message
    clock,              \* the browser's clock: local hour and UTC offset
    written,            \* the store: the last document a write put there
    snapshotDocs,       \* the documents of the snapshot last delivered to Reports
    reportsExpenses,    \* Reports: the expense snapshot held
    filteredExpenses,   \* Reports: the filtered set
    dateFilter,         \* Reports: the selected range
    customDateRange,    \* Reports: startDate and endDate of the custom range
    now,                \* Reports: the local date and time new Date() returns
    dateFns,            \* the date-fns major version installed: "v2" or "v3"
    reportsPhase,       \* Reports: mounted, loaded, refiltered or crashed
    firstPass,          \* the filtered set that was delivered back as a snapshot
    overviewExpenses,   \* DashboardOverview: the expense snapshot held
    customCategories,   \* the names of the user's custom categories, as delivered
    categoriesExpenses, \* Categories: the expense snapshot held
    storeDocs,          \* the store: the expense documents of all users
    nextDocId,          \* the store: the next document id addDoc assigns
    listeners,          \* subscribeToExpenses: none, active or closed, per user
    inbox,              \* the snapshots raised for a listener and not yet delivered
    delivered,          \* the last snapshot a callback received, per user
    deleteCall,         \* the deleteExpense call in flight
    resolvedDeletes,    \* the deleteExpense calls that have resolved
    pageToast,          \* Expenses: the toast state, null or the message's type
    dashToast,          \* Dashboard: the toast state
    toastView,          \* what each Toast shows: its element and its timer
    pendingWrites,      \* Expenses: the writes awaiting the store
    storeCalls,          \* Expenses: the calls made to the store, per operation
    authState,          \* Firebase Auth: the signed-in user, or null
    authQueue,          \* the auth states not yet reported to the listener
    currentUser,        \* AuthProvider: the currentUser state
    loading,            \* AuthProvider: the loading state
    callbackPhase,      \* the listener between its two state updates, or idle
    location,           \* the path of the router
    routeView,           \* what each PrivateRoute rendered last
    effectPending,      \* Reports: the filter effect of the last render has not run yet
    painted,             \* Reports: the snapshot, range and filtered set of the last render
    subs,               \* per component: its effect, the unsubscribe functions held, its listeners
    cleanupError,       \* a cleanup has raised an error
    lateUpdate,          \* a callback has updated state after the cleanup of its subscription
    signupForm,         \* Signup: the password and confirmation submitted last
    signupError,        \* Signup: the error message shown
    signupLoading,      \* Signup: the loading flag
    signupRequest,      \* Signup: the signup call in flight, or the last one made
    signupPath,          \* the path after the Signup form navigated
    sortInput,          \* the value handed to sortExpensesByDate
    sortOut,             \* its result, and the input array after the call
    csvExpenses,        \* Reports: the filtered expenses exported
    csvContent,          \* the lines of the CSV file written, once exported
    addArgs,            \* the userId and expenseData of one addExpense call
    addCall,            \* the call: idle, pending, resolved with an id, or rejected with an error
    addAttempts,        \* the addDoc calls made
    addWritten,          \* the documents the store wrote
    topLevelDocs,       \* the store: the documents of the collection expenses
    userDocs,           \* the store: the documents of the collections users/{uid}/expenses
    listExpenses,       \* ExpenseList: the expenses held
    showDeleteModal,    \* ExpenseList: the confirmation modal is open
    expenseToDelete,    \* ExpenseList: the expense selected for deletion, or null
    listError,          \* ExpenseList: the error message
    confirmedDeletes,   \* the ids of the expenses whose deletion was confirmed
    readBack,            \* the last getExpenses result, with the ids added before it
    shownForm,          \* the form of the page shown: Login, Signup or ExpenseForm
    loginLoading,       \* Login: loading
    loginError,         \* Login: error
    loginRequest,       \* Login: the state of the login request
    loginPath,          \* Login: the path of the router
    formLoading,        \* ExpenseForm: loading
    formRequest,        \* ExpenseForm: the state of its addExpense request
    updateCall,         \* Expenses: the state of the update started by onExpenseEdited
    lastSubmit,         \* the form, mode and validity of the last submission
    submitTick          \* flips with every submission

utilVars == <<input, utilOut>>
valVars  == <<candidate, validation>>
formVars == <<formMode, form, clock, written>>
reportVars == <<snapshotDocs, reportsExpenses, filteredExpenses, dateFilter, customDateRange, now,
                dateFns, reportsPhase, firstPass, overviewExpenses>>
catVars == <<customCategories, categoriesExpenses>>
storeVars == <<storeDocs, nextDocId, listeners, inbox, delivered, deleteCall,
              resolvedDeletes>>
toastVars == <<pageToast, dashToast, toastView, pendingWrites, storeCalls>>
authVars == <<authState, authQueue, currentUser, loading, callbackPhase,
              location, routeView>>
renderVars == <<effectPending, painted>>
subVars == <<subs, cleanupError, lateUpdate>>
signupVars == <<signupForm, signupError, signupLoading, signupRequest,
              signupPath>>
sortVars == <<sortInput, sortOut>>
csvVars == <<csvExpenses, csvContent>>
addVars == <<addArgs, addCall, addAttempts, addWritten>>
listVars == <<topLevelDocs, userDocs, listExpenses, showDeleteModal,
              expenseToDelete, listError, confirmedDeletes, readBack>>
loadingVars == <<shownForm, loginLoading, loginError, loginRequest,
              loginPath, formLoading, formRequest, updateCall, lastSubmit,
              submitTick>>
vars     == <<input, utilOut, candidate, validation, formMode, form, clock,
              written, snapshotDocs, reportsExpenses, filteredExpenses,
              dateFilter, customDateRange, now, dateFns, reportsPhase,
              firstPass, overviewExpenses, customCategories,
              categoriesExpenses, storeDocs, nextDocId, listeners, inbox,
              delivered, deleteCall, resolvedDeletes, pageToast, dashToast,
              toastView, pendingWrites, storeCalls, authState, authQueue,
              currentUser, loading, callbackPhase, location, routeView,
              effectPending, painted, subs, cleanupError, lateUpdate,
              signupForm, signupError, signupLoading, signupRequest,
              signupPath, sortInput, sortOut, csvExpenses, csvContent,
              addArgs, addCall, addAttempts, addWritten, topLevelDocs,
              userDocs, listExpenses, showDeleteModal, expenseToDelete,
              listError, confirmedDeletes, readBack, shownForm, loginLoading,
              loginError, loginRequest, loginPath, formLoading, formRequest,
              updateCall, lastSubmit, submitTick>>

----------------------------------------------------------------------------
(* Bounds of the model *)

\* longest record collection handed to the expense utilities
MaxUtilRecords == 2

----------------------------------------------------------------------------
(* JavaScript values *)

Undefined == [t |-> "undefined", n |-> 0, s |-> <<>>]
Null      == [t |-> "null", n |-> 0, s |-> <<>>]
NaN       == [t |-> "NaN", n |-> 0, s |-> <<>>]
Num(k)    == [t |-> "number", n |-> k, s |-> <<>>]
Str(cs)   == [t |-> "string", n |-> 0, s |-> cs]

\* typeof v: NaN is of type number
TypeOf(v) ==
    CASE v.t \in {"number", "NaN"} -> "number"
      [] v.t = "string" -> "string"
      [] v.t = "null" -> "object"
      [] OTHER -> "undefined"

\* the truthiness the operators ||, && and ! test
Truthy(v) ==
    CASE v.t = "number" -> v.n # 0
      [] v.t = "string" -> v.s # <<>>
      [] OTHER -> FALSE

\* String.prototype.startsWith
StartsWith(cs, prefix) ==
    /\ Len(prefix) <= Len(cs)
    /\ SubSeq(cs, 1, Len(prefix)) = prefix

DigitChars == <<"0", "1", "2", "3", "4", "5", "6", "7", "8", "9">>

Pad2(k) == <<DigitChars[(k \div 10) + 1], DigitChars[(k % 10) + 1]>>

Pad4(k) == Pad2(k \div 100) \o Pad2(k % 100)

\* the text of a calendar date in the form yyyy-MM-dd
FormatISO(y, m, d) == Pad4(y) \o <<"-">> \o Pad2(m) \o <<"-">> \o Pad2(d)

\* an expense record as a snapshot delivers it
Expense(id, title, amount, category, date) ==
    [id |-> id, title |-> title, amount |-> amount,
     category |-> category, date |-> date]

\* the arrays of length at most k over a universe of record bodies, each
\* record given the id of its position (document ids are unique)
WithIds(bodies) ==
    [i \in 1..Len(bodies) |-> [bodies[i] EXCEPT !.id = i]]

SeqsUpTo(U, k) == UNION {[1..len -> U] : len \in 0..k}

JsArray(a) == [t |-> "array", a |-> a]
JsNullish(kind) == [t |-> kind, a |-> <<>>]

----------------------------------------------------------------------------
(* expenseUtils.js *)

\* expense.amount || 0
AmountOrZero(expense) ==
    IF Truthy(expense.amount) THEN expense.amount.n ELSE 0

\* expenses.reduce((total, expense) => total + (expense.amount || 0), 0)
RECURSIVE ReduceAmounts(_, _, _)
ReduceAmounts(a, i, total) ==
    IF i > Len(a) THEN total
    ELSE ReduceAmounts(a, i + 1, total + AmountOrZero(a[i]))

getTotalExpensesSkipsLast(expenses) ==
    IF expenses.t # "array" THEN 0
    ELSE ReduceAmounts(SubSeq(expenses.a, 1, Len(expenses.a) - 1), 1, 0)

getTotalExpenses(expenses) ==
    IF expenses.t # "array" THEN 0
    ELSE ReduceAmounts(expenses.a, 1, 0)

LowerCase(category) == IF category = "Food" THEN "food" ELSE category

getTotalByCategoryIgnoresCase(expenses, category) ==
    IF expenses.t # "array" THEN 0
    ELSE ReduceAmounts(
             SelectSeq(expenses.a,
                 LAMBDA e : LowerCase(e.category) = LowerCase(category)), 1, 0)

getTotalByCategory(expenses, category) ==
    IF expenses.t # "array" THEN 0
    ELSE ReduceAmounts(
             SelectSeq(expenses.a, LAMBDA e : e.category = category), 1, 0)

getTotalByMonthExactMatch(expenses, month) ==
    IF expenses.t # "array" THEN 0
    ELSE ReduceAmounts(
             SelectSeq(expenses.a,
                 LAMBDA e : Truthy(e.date) /\ e.date.s = month), 1, 0)

getTotalByMonth(expenses, month) ==
    IF expenses.t # "array" THEN 0
    ELSE ReduceAmounts(
             SelectSeq(expenses.a,
                 LAMBDA e : Truthy(e.date) /\ StartsWith(e.date.s, month)), 1, 0)

\* the inputs of the utilities: the amounts, categories and dates of the
\* unit tests' records
UtilAmounts == {Undefined, Null, Num(50), Num(100)}
UtilCategories == {"Food", "food"}
UtilDates == {Undefined, Str(<<"2", "0", "2", "4">>),
              Str(FormatISO(2024, 1, 15)), Str(FormatISO(2024, 2, 1))}

UtilRecords ==
    {Expense(0, Str(<<"a">>), amt, cat, date) :
        amt \in UtilAmounts, cat \in UtilCategories, date \in UtilDates}

\* the first seven characters of a date text: its YYYY-MM prefix
MonthPrefix(cs) == SubSeq(cs, 1, IF Len(cs) < 7 THEN Len(cs) ELSE 7)

\* the categories and months the callers ask the totals for
AskedCategories == UtilCategories \cup {"Rent"}
AskedMonths ==
    {MonthPrefix(d.s) : d \in {x \in UtilDates : x.t = "string"}}
        \cup {SubSeq(FormatISO(2024, 3, 1), 1, 7)}

UtilIdle == [done |-> FALSE, total |-> 0,
             byCategory |-> [c \in AskedCategories |-> 0],
             byMonth |-> [m \in AskedMonths |-> 0]]

UtilsInit ==
    /\ input \in {JsArray(WithIds(b)) : b \in SeqsUpTo(UtilRecords, MaxUtilRecords)}
                    \cup {JsNullish("null"), JsNullish("undefined")}
    /\ utilOut = UtilIdle

\* a caller computes the total, the total of every category and of every month
CallTotals ==
    /\ ~utilOut.done
    /\ utilOut' = [done |-> TRUE,
                   total |-> getTotalExpenses(input),
                   byCategory |-> [c \in AskedCategories |->
                                      getTotalByCategory(input, c)],
                   byMonth |-> [m \in AskedMonths |->
                                   getTotalByMonth(input, m)]]
    /\ UNCHANGED input

----------------------------------------------------------------------------
(* validateExpense *)

\* longest title text handed to validateExpense
MaxTitleLen == 2

IsWhitespace(c) == c = " "

\* String.prototype.trim: the text without its leading and trailing whitespace
RECURSIVE TrimStart(_)
TrimStart(cs) ==
    IF cs # <<>> /\ IsWhitespace(Head(cs)) THEN TrimStart(Tail(cs)) ELSE cs

RECURSIVE TrimEnd(_)
TrimEnd(cs) ==
    IF cs # <<>> /\ IsWhitespace(cs[Len(cs)])
    THEN TrimEnd(SubSeq(cs, 1, Len(cs) - 1)) ELSE cs

Trim(cs) == TrimEnd(TrimStart(cs))

ValResult(isValid, error) ==
    [done |-> TRUE, threw |-> FALSE, isValid |-> isValid, error |-> error]

\* a TypeError leaves validateExpense: title.trim is not a function
ValThrow == [done |-> TRUE, threw |-> TRUE, isValid |-> FALSE, error |-> ""]

validateExpense(expense) ==
    IF ~Truthy(expense.title) THEN ValResult(FALSE, "Title is required")
    ELSE IF expense.title.t # "string" THEN ValThrow
    ELSE IF Trim(expense.title.s) = <<>> THEN ValResult(FALSE, "Title is required")
    ELSE IF TypeOf(expense.amount) # "number"
            \/ (expense.amount.t = "number" /\ expense.amount.n <= 0)
         THEN ValResult(FALSE, "Amount must be positive")
    ELSE ValResult(TRUE, "")

TitleTexts == SeqsUpTo({" ", "a"}, MaxTitleLen)

\* the candidates: a title that is absent, a text or (ill-typed) a number, and
\* an amount of every kind, the numeric-looking string "5" among them
CandidateTitles == {Undefined, Num(7)} \cup {Str(cs) : cs \in TitleTexts}
CandidateAmounts ==
    {Undefined, Null, NaN, Num(-5), Num(0), Num(5), Str(<<"5">>)}

ValIdle == [done |-> FALSE, threw |-> FALSE, isValid |-> FALSE, error |-> ""]

ValidateInit ==
    /\ candidate \in [title : CandidateTitles, amount : CandidateAmounts]
    /\ validation = ValIdle

ValidateIdleInit ==
    /\ candidate = [title |-> Undefined, amount |-> Undefined]
    /\ validation = ValIdle

UtilsIdleInit ==
    /\ input = JsNullish("undefined")
    /\ utilOut = UtilIdle

CallValidateExpense ==
    /\ ~validation.done
    /\ validation' = validateExpense(candidate)
    /\ UNCHANGED candidate

----------------------------------------------------------------------------
(* Calendar dates *)

IsDigit(c) == \E k \in 1..Len(DigitChars) : DigitChars[k] = c

DigitVal(c) == (CHOOSE k \in 1..Len(DigitChars) : DigitChars[k] = c) - 1

\* the number a text of digits denotes (0 for the empty text)
RECURSIVE DigitsVal(_)
DigitsVal(cs) ==
    IF cs = <<>> THEN 0
    ELSE 10 * DigitsVal(SubSeq(cs, 1, Len(cs) - 1)) + DigitVal(cs[Len(cs)])

IsLeapYear(y) == (y % 4 = 0 /\ y % 100 # 0) \/ y % 400 = 0

DaysInMonth(y, m) ==
    IF m = 2 THEN (IF IsLeapYear(y) THEN 29 ELSE 28)
    ELSE IF m \in {4, 6, 9, 11} THEN 30 ELSE 31

\* a Date: Invalid Date, or the calendar day and the millisecond of the day
InvalidDate == [ok |-> FALSE, y |-> 0, m |-> 0, d |-> 0, ms |-> 0]
DateOf(y, m, d, ms) == [ok |-> TRUE, y |-> y, m |-> m, d |-> d, ms |-> ms]

\* the Date of a text of the form YYYY-MM-DD (midnight of that day), Invalid
\* Date for any other text
ParseYMD(cs) ==
    IF /\ Len(cs) = 10
       /\ cs[5] = "-" /\ cs[8] = "-"
       /\ \A i \in {1, 2, 3, 4, 6, 7, 9, 10} : IsDigit(cs[i])
    THEN LET y == DigitsVal(SubSeq(cs, 1, 4))
             m == DigitsVal(SubSeq(cs, 6, 7))
             d == DigitsVal(SubSeq(cs, 9, 10))
         IN  IF m \in 1..12 /\ d \in 1..DaysInMonth(y, m)
             THEN DateOf(y, m, d, 0) ELSE InvalidDate
    ELSE InvalidDate

LeapYearsBefore(y) == ((y - 1) \div 4) - ((y - 1) \div 100) + ((y - 1) \div 400)

RECURSIVE DaysBeforeMonth(_, _)
DaysBeforeMonth(y, m) ==
    IF m = 1 THEN 0 ELSE DaysBeforeMonth(y, m - 1) + DaysInMonth(y, m - 1)

\* the number of the day in the proleptic Gregorian calendar
DayNumber(y, m, d) == 365 * y + LeapYearsBefore(y) + DaysBeforeMonth(y, m) + d

\* the years the clocks of the model lie in
CalendarYears == 2023..2025

\* the calendar day with a given day number
DayOfNumber(k) ==
    CHOOSE date \in {DateOf(y, m, d, 0) : y \in CalendarYears, m \in 1..12, d \in 1..31} :
        date.d <= DaysInMonth(date.y, date.m)
            /\ DayNumber(date.y, date.m, date.d) = k

----------------------------------------------------------------------------
(* ExpenseForm, Expenses.handleUpdateExpense, database.addExpense *)

\* the local calendar day of every clock of the expense form
FormToday == DateOf(2024, 3, 10, 0)

\* the clocks: evening west of UTC, noon at UTC, early morning east of UTC
Clocks == {[hour |-> 20, utcOffset |-> -8],
           [hour |-> 12, utcOffset |-> 0],
           [hour |-> 2, utcOffset |-> 8]}

\* an instant: whole hours since the start of day number 0 in UTC, and the
\* milliseconds of the hour
Instant(hours, ms) == [hours |-> hours, ms |-> ms]

Later(a, b) == a.hours > b.hours \/ (a.hours = b.hours /\ a.ms > b.ms)

\* new Date(text) for a date-only text: midnight of that day in UTC
NewDateOfText(cs) ==
    LET date == ParseYMD(cs)
    IN  IF date.ok
        THEN [ok |-> TRUE, at |-> Instant(24 * DayNumber(date.y, date.m, date.d), 0)]
        ELSE [ok |-> FALSE, at |-> Instant(0, 0)]

\* new Date() followed by setHours(23, 59, 59, 999): the end of the local day
EndOfLocalToday ==
    Instant(24 * DayNumber(FormToday.y, FormToday.m, FormToday.d)
                + 23 - clock.utcOffset, 3599999)

\* new Date().toISOString().split('T')[0]: the calendar day in UTC
UtcTodayText ==
    LET hours == 24 * DayNumber(FormToday.y, FormToday.m, FormToday.d)
                     + clock.hour - clock.utcOffset
        day == DayOfNumber(hours \div 24)
    IN  FormatISO(day.y, day.m, day.d)

\* value.replace(/[^0-9.]/g, '')
CleanAmountText(value) == SelectSeq(value, LAMBDA c : IsDigit(c) \/ c = ".")

\* the number of parts of value.split('.')
SplitCount(cs) == Cardinality({i \in 1..Len(cs) : cs[i] = "."}) + 1

FirstDot(cs) ==
    IF \E i \in 1..Len(cs) : cs[i] = "."
    THEN CHOOSE i \in 1..Len(cs) : cs[i] = "." /\ \A j \in 1..(i - 1) : cs[j] # "."
    ELSE Len(cs) + 1

\* the text between the first and the second dot: value.split('.')[1]
SecondPart(cs) ==
    LET rest == SubSeq(cs, FirstDot(cs) + 1, Len(cs))
    IN  SubSeq(rest, 1, FirstDot(rest) - 1)

\* the longest prefix of digits
RECURSIVE DigitPrefix(_)
DigitPrefix(cs) ==
    IF cs # <<>> /\ IsDigit(Head(cs))
    THEN <<Head(cs)>> \o DigitPrefix(Tail(cs)) ELSE <<>>

\* parseFloat of a text of digits and dots, in hundredths (the form admits at
\* most two decimals): digits, then optionally a dot and digits; NaN when the
\* text starts with neither a digit nor a dot followed by a digit
ParseFloatText(cs) ==
    LET whole == DigitPrefix(cs)
        rest == SubSeq(cs, Len(whole) + 1, Len(cs))
        frac == IF rest # <<>> /\ Head(rest) = "."
                THEN DigitPrefix(Tail(rest)) ELSE <<>>
        frac2 == SubSeq(frac \o <<"0", "0">>, 1, 2)
    IN  IF whole = <<>> /\ frac = <<>> THEN NaN
        ELSE Num(100 * DigitsVal(whole) + DigitsVal(frac2))

RECURSIVE NatToText(_)
NatToText(k) ==
    IF k < 10 THEN <<DigitChars[k + 1]>>
    ELSE NatToText(k \div 10) \o <<DigitChars[(k % 10) + 1]>>

\* Number.prototype.toString of a number of hundredths, and of NaN
NumberToText(v) ==
    IF v.t # "number" THEN <<"N", "a", "N">>
    ELSE LET whole == NatToText(v.n \div 100)
             cents == v.n % 100
         IN  IF cents = 0 THEN whole
             ELSE IF cents % 10 = 0 THEN whole \o <<".", DigitChars[(cents \div 10) + 1]>>
             ELSE whole \o <<".">> \o Pad2(cents)

\* parseFloat of a value: of the text itself, or of the text of a number
ParseFloat(v) ==
    IF v.t = "string" THEN ParseFloatText(v.s) ELSE ParseFloatText(NumberToText(v))

FormFields(amount, title, category, date, message) ==
    [amount |-> amount, title |-> title, category |-> category,
     date |-> date, message |-> message, editId |-> 0]

NoForm == FormFields(<<>>, <<>>, "", <<>>, "")

NoWrite == [op |-> "none", id |-> 0,
            doc |-> [amount |-> Undefined, title |-> <<>>, category |-> "", date |-> <<>>]]

\* the expenses the store holds when the page opens: what handleEditExpense
\* hands to the form
StoredExpenses ==
    {Expense(1, Str(<<"a">>), Num(500), "Food", Str(FormatISO(2024, 3, 9)))}

\* what the user may put into the amount field, the title field and the date
\* picker, and the categories of the selector
AmountInputs == {<<>>, <<"0">>, <<"5">>, <<".">>, <<"-", "5">>, <<".", "5">>,
                 <<"5", ".", "5", ".">>, <<"0", ".", "5", "5", "5">>}
TitleInputs == {<<>>, <<" ">>, <<"a">>, <<" ", "a", " ">>}
DateInputs == {<<>>, FormatISO(2024, 3, 10), FormatISO(2024, 3, 11)}
CategoryInputs == {"Food", "Rent"}

validateForm ==
    LET amountValue == ParseFloatText(form.amount)
        selectedDate == NewDateOfText(form.date)
    IN  IF form.amount = <<>> \/ (amountValue.t = "number" /\ amountValue.n <= 0)
        THEN [isValid |-> FALSE, message |-> "Please enter a valid amount"]
        ELSE IF Trim(form.title) = <<>>
        THEN [isValid |-> FALSE, message |-> "Please enter a title"]
        ELSE IF form.date = <<>>
        THEN [isValid |-> FALSE, message |-> "Please select a date"]
        ELSE IF selectedDate.ok /\ Later(selectedDate.at, EndOfLocalToday)
        THEN [isValid |-> FALSE, message |-> "Date cannot be in the future"]
        ELSE [isValid |-> TRUE, message |-> ""]

\* database.addExpense: whether the required-field check lets the data pass
addExpenseAccepts(data) ==
    /\ Truthy(Str(data.title))
    /\ Truthy(data.amount)
    /\ data.category # ""
    /\ Truthy(Str(data.date))

FormInit ==
    /\ formMode = "closed"
    /\ form = NoForm
    /\ clock \in Clocks
    /\ written = NoWrite

FormIdleInit ==
    /\ formMode = "closed"
    /\ form = NoForm
    /\ clock = [hour |-> 12, utcOffset |-> 0]
    /\ written = NoWrite

\* the add modal opens: the form mounts empty and its effect sets the date
OpenAddForm ==
    /\ formMode = "closed"
    /\ formMode' = "add"
    /\ form' = FormFields(<<>>, <<>>, "Food", UtcTodayText, "")
    /\ UNCHANGED <<clock, written>>

\* Expenses.handleEditExpense: the edit modal opens on a stored expense
OpenEditForm ==
    \E expense \in StoredExpenses :
        /\ formMode = "closed"
        /\ formMode' = "edit"
        /\ form' = [FormFields(NumberToText(expense.amount), expense.title.s,
                               expense.category, expense.date.s, "")
                       EXCEPT !.editId = expense.id]
        /\ UNCHANGED <<clock, written>>

\* the modal's onClose
CloseForm ==
    /\ formMode # "closed"
    /\ formMode' = "closed"
    /\ form' = NoForm
    /\ UNCHANGED <<clock, written>>

handleAmountChange ==
    \E value \in AmountInputs :
        LET cleanValue == CleanAmountText(value)
        IN  /\ formMode # "closed"
            /\ SplitCount(cleanValue) <= 2
            /\ Len(SecondPart(cleanValue)) <= 2
            /\ form' = [form EXCEPT !.amount = cleanValue]
            /\ UNCHANGED <<formMode, clock, written>>

setTitle ==
    \E value \in TitleInputs :
        /\ formMode # "closed"
        /\ form' = [form EXCEPT !.title = value]
        /\ UNCHANGED <<formMode, clock, written>>

setCategory ==
    \E value \in CategoryInputs :
        /\ formMode # "closed"
        /\ form' = [form EXCEPT !.category = value]
        /\ UNCHANGED <<formMode, clock, written>>

\* the date picker changes; in add mode the effect refills an emptied date
setDate ==
    \E value \in DateInputs :
        /\ formMode # "closed"
        /\ form' = [form EXCEPT !.date =
                       IF formMode = "add" /\ value = <<>> THEN UtcTodayText ELSE value]
        /\ UNCHANGED <<formMode, clock, written>>

\* the object handleSubmit builds from the fields
SubmittedData ==
    [amount |-> ParseFloatText(form.amount), title |-> Trim(form.title),
     category |-> form.category, date |-> form.date]

\* handleSubmit with the submission rejected by validateForm
SubmitInvalid ==
    /\ formMode # "closed"
    /\ ~validateForm.isValid
    /\ form' = [form EXCEPT !.message = validateForm.message]
    /\ UNCHANGED <<formMode, clock, written>>

\* handleSubmit in add mode: addExpense, and on success the reset of the form
\* and onExpenseAdded, which closes the modal
SubmitAdd ==
    \E storeAccepts \in BOOLEAN :
        /\ formMode = "add"
        /\ validateForm.isValid
        /\ IF addExpenseAccepts(SubmittedData) /\ storeAccepts
           THEN /\ written' = [op |-> "addDoc", id |-> 0, doc |-> SubmittedData]
                /\ formMode' = "closed"
                /\ form' = NoForm
           ELSE /\ form' = [form EXCEPT !.message = "Failed to add expense"]
                /\ UNCHANGED <<formMode, written>>
        /\ UNCHANGED clock

\* handleSubmit in edit mode: onExpenseEdited is Expenses.handleUpdateExpense,
\* which updates the document and on success closes the modal
SubmitEdit ==
    \E storeAccepts \in BOOLEAN :
        /\ formMode = "edit"
        /\ validateForm.isValid
        /\ IF storeAccepts
           THEN /\ written' = [op |-> "updateDoc", id |-> form.editId,
                               doc |-> [SubmittedData EXCEPT
                                           !.amount = ParseFloat(SubmittedData.amount)]]
                /\ formMode' = "closed"
                /\ form' = NoForm
           ELSE UNCHANGED <<formMode, form, written>>
        /\ UNCHANGED clock

----------------------------------------------------------------------------
(* Reports: the date filter *)

\* the last millisecond of a day: 23:59:59.999
EndOfDayMs == 24 * 60 * 60 * 1000 - 1

\* a <= b on Dates, as the comparison of their time values; false when one of
\* them is Invalid Date
DateLeq(a, b) ==
    /\ a.ok /\ b.ok
    /\ \/ a.y < b.y
       \/ a.y = b.y /\ a.m < b.m
       \/ a.y = b.y /\ a.m = b.m /\ a.d < b.d
       \/ a.y = b.y /\ a.m = b.m /\ a.d = b.d /\ a.ms <= b.ms

startOfMonth(date) == DateOf(date.y, date.m, 1, 0)
endOfMonth(date) == DateOf(date.y, date.m, DaysInMonth(date.y, date.m), EndOfDayMs)
startOfYear(date) == DateOf(date.y, 1, 1, 0)
endOfYear(date) == DateOf(date.y, 12, 31, EndOfDayMs)

subMonthsKeepsYear(date, amount) ==
    LET m == ((date.m - 1 - amount) % 12) + 1
        last == DaysInMonth(date.y, m)
    IN  DateOf(date.y, m, IF date.d >= last THEN last ELSE date.d, date.ms)

\* date-fns addMonths with a negative amount: the same day of the month
\* `amount` months earlier, or the last day of that month when it is shorter
subMonths(date, amount) ==
    LET index == date.y * 12 + (date.m - 1) - amount
        y == index \div 12
        m == (index % 12) + 1
        last == DaysInMonth(y, m)
    IN  DateOf(y, m, IF date.d >= last THEN last ELSE date.d, date.ms)

subYears(date, amount) == subMonths(date, 12 * amount)

\* format(date, 'yyyy-MM-dd')
format(date) == FormatISO(date.y, date.m, date.d)

\* parseISO throws on a value that is no string when date-fns does not check
\* the type of its argument (v3 and later: dateString.split is not a function)
parseISOThrows(value) == value.t # "string" /\ dateFns = "v3"

\* parseISO of a date-only text is midnight of that day in local time
parseISO(value) == IF value.t = "string" THEN ParseYMD(value.s) ELSE InvalidDate

DateFilters ==
    {"all", "today", "thisMonth", "lastMonth", "thisYear", "lastYear", "custom"}

\* the filters whose callback parses the date of every record
ParsingFilters == DateFilters \ {"all", "today"}

Within(date, start, end) == DateLeq(start, date) /\ DateLeq(date, end)

\* the callback of expenses.filter in each case of the switch on the range
FilterKeeps(expense, range, custom) ==
    CASE range = "today" -> expense.date = Str(format(now))
      [] range = "thisMonth" ->
            Within(parseISO(expense.date), startOfMonth(now), endOfMonth(now))
      [] range = "lastMonth" ->
            Within(parseISO(expense.date),
                   startOfMonth(subMonths(now, 1)), endOfMonth(subMonths(now, 1)))
      [] range = "thisYear" ->
            Within(parseISO(expense.date), startOfYear(now), endOfYear(now))
      [] range = "lastYear" ->
            Within(parseISO(expense.date),
                   startOfYear(subYears(now, 1)), endOfYear(subYears(now, 1)))
      [] range = "custom" ->
            Within(parseISO(expense.date),
                   parseISO(Str(custom.startDate)), parseISO(Str(custom.endDate)))

\* what the comparator of filtered.sort reads of a record: whether it has a
\* date, and new Date(date).getTime() in days (NaN for an unparsable text)
SortKey(expense) ==
    LET date == IF expense.date.t = "string" THEN ParseYMD(expense.date.s)
                ELSE InvalidDate
    IN  [dated |-> Truthy(expense.date),
         nan |-> ~date.ok,
         day |-> IF date.ok THEN DayNumber(date.y, date.m, date.d) ELSE 0]

\* the comparator of filtered.sort on the keys of two records: newest first
\* when both have a date, 0 otherwise; a NaN difference counts as 0
CompareByDate(a, b) ==
    IF a.dated /\ b.dated /\ ~a.nan /\ ~b.nan THEN b.day - a.day ELSE 0

\* Array.prototype.sort with a consistent comparator is a stable sort: the
\* positions of the records in sorted order
RECURSIVE InsertByDate(_, _, _)
InsertByDate(sorted, i, keys) ==
    IF sorted = <<>> THEN <<i>>
    ELSE IF CompareByDate(keys[sorted[Len(sorted)]], keys[i]) <= 0
         THEN Append(sorted, i)
    ELSE Append(InsertByDate(SubSeq(sorted, 1, Len(sorted) - 1), i, keys),
                sorted[Len(sorted)])

RECURSIVE StableOrder(_, _)
StableOrder(n, keys) ==
    IF n = 0 THEN <<>> ELSE InsertByDate(StableOrder(n - 1, keys), n, keys)

\* the comparator orders the records consistently: comparing equal is
\* transitive
ConsistentComparator(keys) ==
    \A i, j, k \in DOMAIN keys :
        (CompareByDate(keys[i], keys[j]) = 0 /\ CompareByDate(keys[j], keys[k]) = 0)
            => CompareByDate(keys[i], keys[k]) = 0

Reorderings(a) ==
    {[i \in 1..Len(a) |-> a[p[i]]] :
        p \in {q \in [1..Len(a) -> 1..Len(a)] :
                  \A i, j \in 1..Len(a) : q[i] = q[j] => i = j}}

\* the orders filtered.sort may leave: the stable order, or with an
\* inconsistent comparator an order the engine chooses
SortOutcomes(a) ==
    LET keys == [i \in 1..Len(a) |-> SortKey(a[i])]
        order == StableOrder(Len(a), keys)
    IN  IF ConsistentComparator(keys)
        THEN {[i \in 1..Len(a) |-> a[order[i]]]}
        ELSE Reorderings(a)

filterExpensesDropsFirst(snapshot, range, custom) ==
    LET Keeps(expense) == FilterKeeps(expense, range, custom)
    IN  [threw |-> range \in ParsingFilters
                      /\ \E i \in 1..Len(snapshot) : parseISOThrows(snapshot[i].date),
         filtered |-> IF snapshot = <<>> THEN <<>>
                      ELSE IF range \in DateFilters \ {"all"}
                      THEN SelectSeq(Tail(snapshot), Keeps)
                      ELSE Tail(snapshot),
         inPlace |-> range \notin DateFilters \ {"all"}]

filterExpensesDropsUndated(snapshot, range, custom) ==
    LET Keeps(expense) == FilterKeeps(expense, range, custom)
        Dated(expense) == Truthy(expense.date)
    IN  [threw |-> range \in ParsingFilters
                      /\ \E i \in 1..Len(snapshot) : parseISOThrows(snapshot[i].date),
         filtered |-> IF range \in DateFilters \ {"all"}
                      THEN SelectSeq(snapshot, Keeps)
                      ELSE SelectSeq(snapshot, Dated),
         inPlace |-> range \notin DateFilters \ {"all"}]

\* filterExpenses up to its sort, for the snapshot, range and custom range of
\* the render: whether a filter callback throws, the records kept, and
\* whether `filtered` is the expenses array itself (the default branch)
filterExpenses(snapshot, range, custom) ==
    LET Keeps(expense) == FilterKeeps(expense, range, custom)
    IN  [threw |-> range \in ParsingFilters
                      /\ \E i \in 1..Len(snapshot) : parseISOThrows(snapshot[i].date),
         filtered |-> IF range \in DateFilters \ {"all"}
                      THEN SelectSeq(snapshot, Keeps)
                      ELSE snapshot,
         inPlace |-> range \notin DateFilters \ {"all"}]

\* the effect that follows a render with a new snapshot, range or custom
\* range: filterExpenses, with its sort and setFilteredExpenses; a throw takes
\* the page down
RunFilterEffect(snapshot, range, custom, phase) ==
    LET run == filterExpenses(snapshot, range, custom)
    IN  IF run.threw
        THEN /\ reportsPhase' = "crashed"
             /\ reportsExpenses' = snapshot
             /\ UNCHANGED filteredExpenses
        ELSE \E sorted \in SortOutcomes(run.filtered) :
                /\ reportsPhase' = phase
                /\ filteredExpenses' = sorted
                /\ reportsExpenses' = IF run.inPlace THEN sorted ELSE snapshot

\* the evaluation dates: mid-January, the last moment of March, the leap day
ReportNows == {DateOf(2024, 1, 15, 43200000), DateOf(2024, 3, 31, EndOfDayMs),
               DateOf(2024, 2, 29, 0)}

\* the dates of the records: none, an unparsable text, and days on the
\* boundaries of the windows of the evaluation dates
ReportDates ==
    {Undefined, Str(<<"b", "a", "d">>),
     Str(FormatISO(2023, 12, 31)), Str(FormatISO(2024, 1, 1)),
     Str(FormatISO(2024, 1, 15)), Str(FormatISO(2024, 2, 29)),
     Str(FormatISO(2024, 3, 31))}

DatedRecords == {Expense(0, Str(<<"a">>), Num(1), "Food", date) : date \in ReportDates}

UndatedRecords == {r \in DatedRecords : r.date.t # "string"}

\* the snapshots delivered: none, one or two records, and three records of
\* which the middle one has no date
DatedSnapshots ==
    {<<>>}
    \cup {WithIds(<<a>>) : a \in DatedRecords}
    \cup {WithIds(<<a, b>>) : a, b \in DatedRecords}
    \cup {WithIds(<<a, b, c>>) :
              a \in {r \in DatedRecords : r.date = Str(FormatISO(2024, 1, 1))},
              b \in UndatedRecords,
              c \in {r \in DatedRecords : r.date = Str(FormatISO(2024, 2, 29))}}

CustomStartInputs == {FormatISO(2024, 1, 1)}
CustomEndInputs == {FormatISO(2024, 1, 15)}

\* Reports as mounted: no snapshot yet, the range 'all', the custom range today
ReportsMounted ==
    /\ snapshotDocs = <<>>
    /\ reportsExpenses = <<>>
    /\ filteredExpenses = <<>>
    /\ dateFilter = "all"
    /\ customDateRange = [startDate |-> format(now), endDate |-> format(now)]
    /\ reportsPhase = "mounted"
    /\ firstPass = <<>>
    /\ overviewExpenses = <<>>

ReportsInit ==
    /\ now \in ReportNows
    /\ dateFns \in {"v2", "v3"}
    /\ ReportsMounted

ReportsIdleInit ==
    /\ now = DateOf(2024, 1, 15, 0)
    /\ dateFns = "v2"
    /\ ReportsMounted

ReportsAlive == reportsPhase \in {"mounted", "loaded"}

\* the onSnapshot callback of the Reports page: setExpenses, then the effect
ReportsOnSnapshot ==
    /\ reportsPhase = "mounted"
    /\ \E snapshot \in DatedSnapshots :
        /\ snapshotDocs' = snapshot
        /\ RunFilterEffect(snapshot, dateFilter, customDateRange, "loaded")
        /\ UNCHANGED <<dateFilter, customDateRange, now, dateFns, firstPass,
                       overviewExpenses>>

\* a filter button: setDateFilter, then the effect
SetDateFilter ==
    \E range \in DateFilters :
        /\ ReportsAlive
        /\ dateFilter' = range
        /\ RunFilterEffect(reportsExpenses, range, customDateRange, reportsPhase)
        /\ UNCHANGED <<snapshotDocs, customDateRange, now, dateFns, firstPass,
                       overviewExpenses>>

\* the start date input of the custom range, then the effect
SetCustomStartDate ==
    \E value \in CustomStartInputs :
        /\ ReportsAlive
        /\ dateFilter = "custom"
        /\ customDateRange' = [customDateRange EXCEPT !.startDate = value]
        /\ RunFilterEffect(reportsExpenses, dateFilter, customDateRange', reportsPhase)
        /\ UNCHANGED <<snapshotDocs, dateFilter, now, dateFns, firstPass,
                       overviewExpenses>>

\* the end date input of the custom range, then the effect
SetCustomEndDate ==
    \E value \in CustomEndInputs :
        /\ ReportsAlive
        /\ dateFilter = "custom"
        /\ customDateRange' = [customDateRange EXCEPT !.endDate = value]
        /\ RunFilterEffect(reportsExpenses, dateFilter, customDateRange', reportsPhase)
        /\ UNCHANGED <<snapshotDocs, dateFilter, now, dateFns, firstPass,
                       overviewExpenses>>

\* the store delivers the filtered set itself as the next snapshot
ReportsOnSnapshotOfFiltered ==
    /\ reportsPhase = "loaded"
    /\ firstPass' = filteredExpenses
    /\ snapshotDocs' = filteredExpenses
    /\ RunFilterEffect(filteredExpenses, dateFilter, customDateRange, "refiltered")
    /\ UNCHANGED <<dateFilter, customDateRange, now, dateFns, overviewExpenses>>

----------------------------------------------------------------------------
(* Reports and DashboardOverview: the top category *)

\* longest snapshot of spending records delivered to a page
MaxSpendingRecords == 3

\* a + b on numbers: NaN when one of them is NaN
JsPlus(a, b) == IF a.t = "number" /\ b.t = "number" THEN Num(a.n + b.n) ELSE NaN

\* a > b on numbers: false when one of them is NaN
JsGreater(a, b) == a.t = "number" /\ b.t = "number" /\ a.n > b.n

\* the position of a key in the entries of an object, 0 when it has none
KeyIndex(entries, cat) ==
    IF \E i \in 1..Len(entries) : entries[i].cat = cat
    THEN CHOOSE i \in 1..Len(entries) : entries[i].cat = cat
    ELSE 0

\* the forEach of getTopCategory: categoryMap as its entries in insertion
\* order; a sum that is falsy (0 or NaN) is replaced by the next amount
RECURSIVE categoryMap(_)
categoryMap(a) ==
    IF a = <<>> THEN <<>>
    ELSE LET entries == categoryMap(SubSeq(a, 1, Len(a) - 1))
             expense == a[Len(a)]
             k == KeyIndex(entries, expense.category)
         IN  IF k = 0
             THEN Append(entries, [cat |-> expense.category, amt |-> expense.amount])
             ELSE IF Truthy(entries[k].amt)
             THEN [entries EXCEPT ![k].amt = JsPlus(@, expense.amount)]
             ELSE [entries EXCEPT ![k].amt = expense.amount]

NoCategory == [found |-> FALSE, name |-> ""]
Category(name) == [found |-> TRUE, name |-> name]

\* the loop of getTopCategory over Object.entries(categoryMap)
RECURSIVE TopEntry(_, _, _, _)
TopEntry(entries, i, topCategory, maxAmount) ==
    IF i > Len(entries) THEN [topCategory |-> topCategory, maxAmount |-> maxAmount]
    ELSE IF JsGreater(entries[i].amt, maxAmount)
         THEN TopEntry(entries, i + 1, Category(entries[i].cat), entries[i].amt)
         ELSE TopEntry(entries, i + 1, topCategory, maxAmount)

getTopCategory(filtered) == TopEntry(categoryMap(filtered), 1, NoCategory, Num(0))

\* the reduce of DashboardOverview: the sums by category as entries in
\* insertion order, (acc[category] || 0) + amount
RECURSIVE topCategory(_)
topCategory(a) ==
    IF a = <<>> THEN <<>>
    ELSE LET entries == topCategory(SubSeq(a, 1, Len(a) - 1))
             expense == a[Len(a)]
             k == KeyIndex(entries, expense.category)
         IN  IF k = 0
             THEN Append(entries, [cat |-> expense.category,
                                   amt |-> JsPlus(Num(0), expense.amount)])
             ELSE [entries EXCEPT
                      ![k].amt = JsPlus(IF Truthy(@) THEN @ ELSE Num(0),
                                        expense.amount)]

\* the comparator ([,a], [,b]) => b - a; a NaN difference counts as 0
CompareBySum(a, b) ==
    IF a.amt.t = "number" /\ b.amt.t = "number" THEN b.amt.n - a.amt.n ELSE 0

RECURSIVE InsertBySum(_, _)
InsertBySum(sorted, e) ==
    IF sorted = <<>> THEN <<e>>
    ELSE IF CompareBySum(sorted[Len(sorted)], e) <= 0 THEN Append(sorted, e)
    ELSE Append(InsertBySum(SubSeq(sorted, 1, Len(sorted) - 1), e),
                sorted[Len(sorted)])

RECURSIVE StableSortBySum(_)
StableSortBySum(entries) ==
    IF entries = <<>> THEN <<>>
    ELSE InsertBySum(StableSortBySum(SubSeq(entries, 1, Len(entries) - 1)),
                     entries[Len(entries)])

ConsistentBySum(entries) ==
    \A i, j, k \in 1..Len(entries) :
        (CompareBySum(entries[i], entries[j]) = 0
            /\ CompareBySum(entries[j], entries[k]) = 0)
            => CompareBySum(entries[i], entries[k]) = 0

\* topCategoryName: the key of the first entry after the sort by sum, 'None'
\* without entries; with a NaN sum among other sums the comparator is
\* inconsistent and the engine chooses the order
topCategoryNames(a) ==
    LET entries == topCategory(a)
    IN  IF Len(entries) > 0
        THEN IF ConsistentBySum(entries)
             THEN {StableSortBySum(entries)[1].cat}
             ELSE {entries[i].cat : i \in 1..Len(entries)}
        ELSE {"None"}

SpendingCategories == {"Food", "Rent", "Fun"}
SpendingAmounts == {NaN, Num(0), Num(1), Num(2)}

SpendingRecords ==
    {Expense(0, Str(<<"a">>), amount, category, Str(FormatISO(2024, 1, 15))) :
        amount \in SpendingAmounts, category \in SpendingCategories}

SpendingSnapshots == {WithIds(b) : b \in SeqsUpTo(SpendingRecords, MaxSpendingRecords)}

\* the dashboard shows the Reports page or the overview
TopInit ==
    /\ now = DateOf(2024, 1, 15, 0)
    /\ dateFns \in {"v2", "v3"}
    /\ snapshotDocs = <<>>
    /\ reportsExpenses = <<>>
    /\ filteredExpenses = <<>>
    /\ dateFilter = "all"
    /\ customDateRange = [startDate |-> format(now), endDate |-> format(now)]
    /\ reportsPhase \in {"mounted", "unmounted"}
    /\ firstPass = <<>>
    /\ overviewExpenses = <<>>

\* the onSnapshot callback of the Reports page with a snapshot of spending
ReportsOnSpendingSnapshot ==
    /\ reportsPhase = "mounted"
    /\ \E snapshot \in SpendingSnapshots :
        /\ snapshotDocs' = snapshot
        /\ RunFilterEffect(snapshot, dateFilter, customDateRange, "loaded")
        /\ UNCHANGED <<dateFilter, customDateRange, now, dateFns, firstPass,
                       overviewExpenses>>

\* the onSnapshot callback of DashboardOverview: the records sorted by date
OverviewOnSnapshot ==
    /\ reportsPhase = "unmounted"
    /\ overviewExpenses = <<>>
    /\ \E snapshot \in SpendingSnapshots :
        /\ overviewExpenses' \in SortOutcomes(snapshot)
        /\ UNCHANGED <<snapshotDocs, reportsExpenses, filteredExpenses, dateFilter,
                       customDateRange, now, dateFns, reportsPhase, firstPass>>

----------------------------------------------------------------------------
(* Reports and DashboardOverview: the monthly data *)

\* the month names of format(date, 'MMM') and of toLocaleString in an
\* English locale
MonthAbbrev ==
    << <<"J", "a", "n">>, <<"F", "e", "b">>, <<"M", "a", "r">>,
       <<"A", "p", "r">>, <<"M", "a", "y">>, <<"J", "u", "n">>,
       <<"J", "u", "l">>, <<"A", "u", "g">>, <<"S", "e", "p">>,
       <<"O", "c", "t">>, <<"N", "o", "v">>, <<"D", "e", "c">> >>

\* format(date, 'MMM yyyy')
formatMonthYear(date) == MonthAbbrev[date.m] \o <<" ">> \o Pad4(date.y)

\* new Date(label) for a label of the form 'MMM yyyy' in an engine whose
\* date parser accepts the form: the first day of that month
ParseMonthYear(label) ==
    IF /\ Len(label) = 8
       /\ label[4] = " "
       /\ \E m \in 1..12 : MonthAbbrev[m] = SubSeq(label, 1, 3)
       /\ \A i \in 5..8 : IsDigit(label[i])
    THEN DateOf(DigitsVal(SubSeq(label, 5, 8)),
                CHOOSE m \in 1..12 : MonthAbbrev[m] = SubSeq(label, 1, 3), 1, 0)
    ELSE InvalidDate

\* the form 'MMM yyyy' is none of the forms Date.parse must accept: an engine
\* may parse it or return Invalid Date
LabelParsers == {"parses", "invalid"}

\* the position of a month in the entries of monthlyMap, 0 when it has none
MonthIndex(entries, month) ==
    IF \E i \in 1..Len(entries) : entries[i].month = month
    THEN CHOOSE i \in 1..Len(entries) : entries[i].month = month
    ELSE 0

\* monthlyMap[month] += amount, or = amount when the sum is missing or falsy
AddToMonth(entries, month, amount) ==
    LET k == MonthIndex(entries, month)
    IN  IF k = 0 THEN Append(entries, [month |-> month, amount |-> amount])
        ELSE IF Truthy(entries[k].amount)
        THEN [entries EXCEPT ![k].amount = JsPlus(@, amount)]
        ELSE [entries EXCEPT ![k].amount = amount]

\* the comparator (a, b) => new Date(a) - new Date(b) on two entries; a NaN
\* difference counts as 0
CompareMonths(a, b, parser) ==
    LET da == ParseMonthYear(a.month)
        db == ParseMonthYear(b.month)
    IN  IF parser = "parses" /\ da.ok /\ db.ok
        THEN DayNumber(da.y, da.m, da.d) - DayNumber(db.y, db.m, db.d)
        ELSE 0

RECURSIVE InsertMonth(_, _, _)
InsertMonth(sorted, e, parser) ==
    IF sorted = <<>> THEN <<e>>
    ELSE IF CompareMonths(sorted[Len(sorted)], e, parser) <= 0 THEN Append(sorted, e)
    ELSE Append(InsertMonth(SubSeq(sorted, 1, Len(sorted) - 1), e, parser),
                sorted[Len(sorted)])

\* Object.keys(monthlyMap).sort(...) with the amounts mapped back: the labels
\* are distinct, so the comparator is consistent and the sort is stable
RECURSIVE sortedMonths(_, _)
sortedMonths(entries, parser) ==
    IF entries = <<>> THEN <<>>
    ELSE InsertMonth(sortedMonths(SubSeq(entries, 1, Len(entries) - 1), parser),
                     entries[Len(entries)], parser)

\* the forEach of Reports.getMonthlyData
RECURSIVE reportsMonthlyMap(_)
reportsMonthlyMap(a) ==
    IF a = <<>> THEN <<>>
    ELSE AddToMonth(reportsMonthlyMap(SubSeq(a, 1, Len(a) - 1)),
                    formatMonthYear(parseISO(a[Len(a)].date)), a[Len(a)].amount)

\* format throws a RangeError for an Invalid Date, and parseISO may throw
reportsMonthlyThrows(a) ==
    \E i \in 1..Len(a) : parseISOThrows(a[i].date) \/ ~parseISO(a[i].date).ok

\* Reports.getMonthlyData: whether it throws, and the series it may return
reportsMonthlyData(filtered) ==
    [threw |-> reportsMonthlyThrows(filtered),
     series |-> IF reportsMonthlyThrows(filtered) THEN {}
                ELSE {sortedMonths(reportsMonthlyMap(filtered), parser) :
                         parser \in LabelParsers}]

\* new Date(expense.date) is midnight UTC of the day; its month and year in
\* local time are those of the day before west of UTC
LocalDayOfUtcMidnight(date, utcOffset) ==
    IF utcOffset < 0 THEN DayOfNumber(DayNumber(date.y, date.m, date.d) - 1)
    ELSE date

overviewDateOf(expense) ==
    IF expense.date.t = "string" THEN ParseYMD(expense.date.s) ELSE InvalidDate

\* the forEach of DashboardOverview.getMonthlyData: records whose date is
\* no date are skipped
overviewMonthlyMap(a, utcOffset) ==
    LET Dated(expense) == overviewDateOf(expense).ok
        F[i \in 0..Len(a)] ==
            IF i = 0 THEN <<>>
            ELSE IF Dated(a[i])
            THEN AddToMonth(F[i - 1],
                            formatMonthYear(LocalDayOfUtcMidnight(
                                overviewDateOf(a[i]), utcOffset)),
                            a[i].amount)
            ELSE F[i - 1]
    IN  F[Len(a)]

\* DashboardOverview.getMonthlyData: the series it may return
overviewMonthlyData(a, utcOffset) ==
    {sortedMonths(overviewMonthlyMap(a, utcOffset), parser) : parser \in LabelParsers}

\* the records of the monthly data: no date, an unparsable date, and days at
\* the ends of months on both sides of a year boundary; no amount, 1 and 2
TrendDates ==
    {Undefined, Str(<<"b", "a", "d">>), Str(FormatISO(2023, 12, 31)),
     Str(FormatISO(2024, 1, 31)), Str(FormatISO(2024, 2, 1))}

TrendAmounts == {Undefined, Num(1), Num(2)}

TrendRecords ==
    {Expense(0, Str(<<"a">>), amount, "Food", date) :
        amount \in TrendAmounts, date \in TrendDates}

WellFormedTrendRecords ==
    {r \in TrendRecords : r.amount = Num(1) /\ overviewDateOf(r).ok}

\* the snapshots delivered: none, one or two records, and three well-formed
\* records
TrendSnapshots ==
    {<<>>}
    \cup {WithIds(<<a>>) : a \in TrendRecords}
    \cup {WithIds(<<a, b>>) : a, b \in TrendRecords}
    \cup {WithIds(<<a, b, c>>) : a, b, c \in WellFormedTrendRecords}

\* the onSnapshot callback of the Reports page with a snapshot of the trend
ReportsOnTrendSnapshot ==
    /\ reportsPhase = "mounted"
    /\ \E snapshot \in TrendSnapshots :
        /\ snapshotDocs' = snapshot
        /\ RunFilterEffect(snapshot, dateFilter, customDateRange, "loaded")
        /\ UNCHANGED <<dateFilter, customDateRange, now, dateFns, firstPass,
                       overviewExpenses>>

\* the onSnapshot callback of DashboardOverview with a snapshot of the trend
OverviewOnTrendSnapshot ==
    /\ reportsPhase = "unmounted"
    /\ overviewExpenses = <<>>
    /\ \E snapshot \in TrendSnapshots :
        /\ overviewExpenses' \in SortOutcomes(snapshot)
        /\ UNCHANGED <<snapshotDocs, reportsExpenses, filteredExpenses, dateFilter,
                       customDateRange, now, dateFns, reportsPhase, firstPass>>

----------------------------------------------------------------------------
(* Categories, DashboardOverview and ExpenseForm: the category lists *)

\* longest expense snapshot delivered to the Categories page
MaxCategoryExpenses == 2

\* most custom categories a user adds
MaxCustomCategories == 2

\* the names of the default categories, the same in the three components
defaultCategories ==
    <<"Food", "Transport", "Entertainment", "Utilities", "Rent", "Other">>

IsDefaultName(name) ==
    \E i \in 1..Len(defaultCategories) : defaultCategories[i] = name

\* Categories.allCategories: the default categories, then every custom one
allCategories(custom) == defaultCategories \o custom

\* DashboardOverview.allCategories: the same concatenation
overviewAllCategories(custom) == defaultCategories \o custom

\* ExpenseForm.allCategories: a custom category with the name of a default
\* one is filtered out
formAllCategories(custom) ==
    LET NotDefault(name) == ~IsDefaultName(name)
    IN  defaultCategories \o SelectSeq(custom, NotDefault)

\* categoryMap[cat.name] = 0 for every category of the list
RECURSIVE ZeroedCategoryMap(_)
ZeroedCategoryMap(all) ==
    IF all = <<>> THEN <<>>
    ELSE LET entries == ZeroedCategoryMap(SubSeq(all, 1, Len(all) - 1))
             k == KeyIndex(entries, all[Len(all)])
         IN  IF k = 0 THEN Append(entries, [cat |-> all[Len(all)], amt |-> Num(0)])
             ELSE [entries EXCEPT ![k].amt = Num(0)]

\* Categories.getCategoryData: the sums of the expenses whose category is a
\* key of the map, as entries in insertion order
RECURSIVE SumIntoCategoryMap(_, _)
SumIntoCategoryMap(entries, a) ==
    IF a = <<>> THEN entries
    ELSE LET before == SumIntoCategoryMap(entries, SubSeq(a, 1, Len(a) - 1))
             expense == a[Len(a)]
             k == KeyIndex(before, expense.category)
         IN  IF k # 0 THEN [before EXCEPT ![k].amt = JsPlus(@, expense.amount)]
             ELSE before

getCategoryData(custom, a) ==
    SumIntoCategoryMap(ZeroedCategoryMap(allCategories(custom)), a)

\* DashboardOverview.getCategoryData: the same map over its own list
overviewCategoryData(custom, a) ==
    SumIntoCategoryMap(ZeroedCategoryMap(overviewAllCategories(custom)), a)

RECURSIVE SumEntries(_)
SumEntries(entries) ==
    IF entries = <<>> THEN Num(0)
    ELSE JsPlus(SumEntries(SubSeq(entries, 1, Len(entries) - 1)),
                entries[Len(entries)].amt)

\* totalSpent: the reduce over the values of the map
totalSpent(custom, a) == SumEntries(getCategoryData(custom, a))

\* (amount / total) * 100 as toFixed(1) prints it, in tenths of a percent
PercentTenths(amount, total) ==
    IF JsGreater(total, Num(0)) /\ amount.t = "number"
    THEN (2000 * amount.n + total.n) \div (2 * total.n)
    ELSE 0

\* the category cards: one for every entry of allCategories, with the amount
\* of its name in the map (0 when falsy) and its percentage of totalSpent
categoryCards(custom, a) ==
    LET data == getCategoryData(custom, a)
        total == totalSpent(custom, a)
        all == allCategories(custom)
        AmountOf(name) ==
            LET k == KeyIndex(data, name)
            IN  IF k # 0 /\ Truthy(data[k].amt) THEN data[k].amt ELSE Num(0)
    IN  [i \in 1..Len(all) |->
            [name |-> all[i],
             amount |-> AmountOf(all[i]),
             percent |-> PercentTenths(AmountOf(all[i]), total)]]

\* totalAmount: filteredExpenses.reduce((sum, expense) => sum + expense.amount, 0)
RECURSIVE totalAmount(_)
totalAmount(filtered) ==
    IF filtered = <<>> THEN Num(0)
    ELSE JsPlus(totalAmount(SubSeq(filtered, 1, Len(filtered) - 1)),
                filtered[Len(filtered)].amount)

\* averageAmount is a number exactly when totalAmount is: totalAmount divided
\* by the length, or 0 for the empty set
averageIsNumber(filtered) == filtered = <<>> \/ totalAmount(filtered).t = "number"

\* Reports.getCategoryData builds the same map as getTopCategory
reportsCategoryData(filtered) == categoryMap(filtered)

\* the category lines of the PDF report: every label of the category data
\* with its percentage of totalAmount
pdfCategoryLines(filtered) ==
    LET data == reportsCategoryData(filtered)
    IN  [i \in 1..Len(data) |->
            [name |-> data[i].cat,
             amount |-> data[i].amt,
             percent |-> PercentTenths(data[i].amt, totalAmount(filtered))]]

\* the names a user types into the add-category form
CategoryNameInputs == {"Food", "Pets"}

CategoryExpenseRecords ==
    {Expense(0, Str(<<"a">>), amount, category, Str(FormatISO(2024, 1, 15))) :
        amount \in {Num(0), Num(1), Num(2)}, category \in {"Food", "Pets", "Gone"}}

CategoryExpenseSnapshots ==
    {WithIds(b) : b \in SeqsUpTo(CategoryExpenseRecords, MaxCategoryExpenses)}

CategoriesInit ==
    /\ customCategories = <<>>
    /\ categoriesExpenses = <<>>

CategoriesIdleInit == CategoriesInit

\* handleAddCategory: the name is added to the categories collection as
\* typed, and the listeners of the collection receive the new snapshot
handleAddCategory ==
    /\ Len(customCategories) < MaxCustomCategories
    /\ \E name \in CategoryNameInputs :
          customCategories' = Append(customCategories, name)
    /\ UNCHANGED categoriesExpenses

\* the onSnapshot callback of the Categories page for the expenses, on its
\* first snapshot: sorted by createdAt, which leaves the order open here
CategoriesOnExpensesSnapshot ==
    /\ categoriesExpenses = <<>>
    /\ \E snapshot \in CategoryExpenseSnapshots :
          categoriesExpenses' \in Reorderings(snapshot)
    /\ UNCHANGED customCategories

----------------------------------------------------------------------------
(* database.js: addExpense, updateExpense, deleteExpense, subscribeToExpenses *)

Users == {"A", "B"}

\* the document ids addDoc assigns, in this order, each once
DocIds == {1, 2}

\* the snapshots a listener may have pending
InboxSizes == {0}

\* doc(db, 'users', userId, 'expenses', expenseId)
expenseRefOfFirstUser(userId, expenseId) == [user |-> "A", doc |-> expenseId]

expenseRef(userId, expenseId) == [user |-> userId, doc |-> expenseId]

\* collection(db, 'users', userId, 'expenses'), named by its user
expensesCollection(userId) == userId

\* the documents of the collection
CollectionDocs(docs, userId) == {d \in docs : d.ref.user = expensesCollection(userId)}

\* { id: doc.id, ...doc.data() }: an id field of the data replaces doc.id
SnapshotRecord(d) ==
    [id |-> IF d.data.id # 0 THEN d.data.id ELSE d.ref.doc,
     userId |-> d.data.userId,
     amount |-> d.data.amount,
     doc |-> d.ref,
     creator |-> d.creator]

\* the array the onSnapshot callback of subscribeToExpenses passes on
SnapshotOf(docs, userId) == {SnapshotRecord(d) : d \in CollectionDocs(docs, userId)}

\* the store raises a snapshot for every active listener of the collection
RaiseSnapshots(docs, userId) ==
    inbox' = [u \in Users |->
                 IF u = userId /\ listeners[u] = "active"
                 THEN Append(inbox[u], SnapshotOf(docs, u))
                 ELSE inbox[u]]

\* the listeners have room for the snapshot a write raises
InboxesHaveRoom == \A u \in Users : Len(inbox[u]) \in InboxSizes

NoDelete == [user |-> "", doc |-> 0]

\* the expenseData of addExpense: the four fields, without an id field (0)
\* or with one, as a copy of the first record of a snapshot has
AddInputs == {[amount |-> 1, id |-> k] : k \in {0, 1}}

StoreInit ==
    /\ storeDocs = {}
    /\ nextDocId = 1
    /\ listeners = [u \in Users |-> "none"]
    /\ inbox = [u \in Users |-> <<>>]
    /\ delivered = [u \in Users |-> [count |-> 0, snapshot |-> {}]]
    /\ deleteCall = NoDelete
    /\ resolvedDeletes = {}

StoreIdleInit == StoreInit

\* addExpense(userId, expenseData) resolves: the data with userId and the
\* timestamps is added under a new document id
addExpense ==
    \E userId \in Users, expenseData \in AddInputs :
        /\ nextDocId \in DocIds
        /\ InboxesHaveRoom
        /\ storeDocs' = storeDocs \cup
              {[ref |-> [user |-> expensesCollection(userId), doc |-> nextDocId],
                data |-> [id |-> expenseData.id, userId |-> userId,
                          amount |-> expenseData.amount],
                creator |-> userId]}
        /\ nextDocId' = nextDocId + 1
        /\ RaiseSnapshots(storeDocs', userId)
        /\ UNCHANGED <<listeners, delivered, deleteCall, resolvedDeletes>>

\* updateExpense(userId, expenseId, updateData) resolves: updateDoc changes
\* the document of the reference, and rejects when there is none
updateExpenseOf(userId, expenseId) ==
    /\ InboxesHaveRoom
    /\ \E d \in storeDocs :
          /\ d.ref = expenseRef(userId, expenseId)
          /\ d.data.amount = 1
          /\ storeDocs' = (storeDocs \ {d}) \cup {[d EXCEPT !.data.amount = 2]}
          /\ RaiseSnapshots(storeDocs', d.ref.user)
    /\ UNCHANGED <<nextDocId, listeners, delivered, deleteCall, resolvedDeletes>>

updateExpense == \E userId \in Users, expenseId \in DocIds : updateExpenseOf(userId, expenseId)

\* deleteExpense(userId, expenseId) up to its await: deleteDoc removes the
\* document of the reference from the local view (none is no error); the
\* id is one addDoc has assigned, which is all a caller can hold
deleteExpenseCallOf(userId, expenseId) ==
    /\ deleteCall = NoDelete
    /\ expenseId < nextDocId
    /\ InboxesHaveRoom
    /\ storeDocs' = {d \in storeDocs : d.ref # expenseRef(userId, expenseId)}
    /\ deleteCall' = [user |-> userId, doc |-> expenseId]
    /\ RaiseSnapshots(storeDocs', expenseRef(userId, expenseId).user)
    /\ UNCHANGED <<nextDocId, listeners, delivered, resolvedDeletes>>

deleteExpenseCall ==
    \E userId \in Users, expenseId \in DocIds : deleteExpenseCallOf(userId, expenseId)

\* the store acknowledges the delete and deleteExpense resolves; the
\* snapshots raised until then have been delivered, their callbacks being
\* tasks queued before the acknowledgement arrives
deleteExpenseResolve ==
    /\ deleteCall # NoDelete
    /\ \A u \in Users : inbox[u] = <<>>
    /\ resolvedDeletes' = resolvedDeletes \cup {deleteCall}
    /\ deleteCall' = NoDelete
    /\ UNCHANGED <<storeDocs, nextDocId, listeners, inbox, delivered>>

\* subscribeToExpenses(userId, callback): the listener is set up and the
\* store raises the first snapshot
subscribeToExpenses ==
    \E userId \in Users :
        /\ listeners[userId] = "none"
        /\ listeners' = [listeners EXCEPT ![userId] = "active"]
        /\ inbox' = [inbox EXCEPT ![userId] = <<SnapshotOf(storeDocs, userId)>>]
        /\ UNCHANGED <<storeDocs, nextDocId, delivered, deleteCall, resolvedDeletes>>

\* the callback of a listener is called with the next snapshot
DeliverSnapshot ==
    \E userId \in Users :
        /\ listeners[userId] = "active"
        /\ inbox[userId] # <<>>
        /\ delivered' = [delivered EXCEPT ![userId] =
              [count |-> 1, snapshot |-> Head(inbox[userId])]]
        /\ inbox' = [inbox EXCEPT ![userId] = Tail(@)]
        /\ UNCHANGED <<storeDocs, nextDocId, listeners, deleteCall, resolvedDeletes>>

\* the unsubscribe function subscribeToExpenses returned: the listener is
\* removed and pending snapshots are dropped
UnsubscribeFromExpenses ==
    \E userId \in Users :
        /\ listeners[userId] = "active"
        /\ listeners' = [listeners EXCEPT ![userId] = "closed"]
        /\ inbox' = [inbox EXCEPT ![userId] = <<>>]
        /\ UNCHANGED <<storeDocs, nextDocId, delivered, deleteCall, resolvedDeletes>>

----------------------------------------------------------------------------
(* Toast.jsx and the pages that render it: Expenses and Dashboard *)

\* most calls of one operation the Expenses page makes
MaxStoreCalls == 2

ToastHosts == {"Expenses", "Dashboard"}

PageWrites == {"add", "update", "delete"}

\* the duration parameter's default
DefaultDuration == 3000

\* the props Expenses passes: message, type and onClose; isVisible is not
\* among them and duration takes its default
ExpensesToastProps(toast) ==
    [mounted |-> toast # "null", isVisible |-> "undefined", duration |-> DefaultDuration]

\* the props Dashboard passes: isVisible from its state, duration 3000
DashboardToastProps(toast) ==
    [mounted |-> TRUE,
     isVisible |-> IF toast.isVisible THEN "true" ELSE "false",
     duration |-> 3000]

\* Toast: the element is rendered when isVisible is truthy, and the effect
\* starts the timer when isVisible is truthy and duration is above 0
Toast(props) ==
    [element |-> props.mounted /\ props.isVisible = "true",
     timer |-> props.mounted /\ props.isVisible = "true" /\ props.duration > 0]

\* the render that follows a change of state
RenderToasts(page, dash) ==
    toastView' = [h \in ToastHosts |->
                     IF h = "Expenses" THEN Toast(ExpensesToastProps(page))
                     ELSE Toast(DashboardToastProps(dash))]

ToastInit ==
    /\ pageToast = "null"
    /\ dashToast = [type |-> "success", isVisible |-> FALSE]
    /\ toastView = [h \in ToastHosts |-> [element |-> FALSE, timer |-> FALSE]]
    /\ pendingWrites = {}
    /\ storeCalls = [w \in PageWrites |-> 0]

ToastIdleInit == ToastInit

\* handleAddExpense, handleUpdateExpense and handleDeleteExpense (after
\* window.confirm) up to their await: one call to the store
PageWriteStarts ==
    \E w \in PageWrites :
        /\ w \notin pendingWrites
        /\ storeCalls[w] < MaxStoreCalls
        /\ pendingWrites' = pendingWrites \cup {w}
        /\ storeCalls' = [storeCalls EXCEPT ![w] = @ + 1]
        /\ UNCHANGED <<pageToast, dashToast, toastView>>

\* the store resolves the write: the try block sets the success toast
PageWriteResolves ==
    \E w \in pendingWrites :
        /\ pendingWrites' = pendingWrites \ {w}
        /\ pageToast' = "success"
        /\ RenderToasts(pageToast', dashToast)
        /\ UNCHANGED <<dashToast, storeCalls>>

\* the store rejects the write: the catch block sets the error toast and
\* the handler ends
PageWriteRejected ==
    \E w \in pendingWrites :
        /\ pendingWrites' = pendingWrites \ {w}
        /\ pageToast' = "error"
        /\ RenderToasts(pageToast', dashToast)
        /\ UNCHANGED <<dashToast, storeCalls>>

\* Dashboard.handleExpenseAdded: showToast('Expense added successfully!')
handleExpenseAdded ==
    /\ dashToast' = [type |-> "success", isVisible |-> TRUE]
    /\ RenderToasts(pageToast, dashToast')
    /\ UNCHANGED <<pageToast, pendingWrites, storeCalls>>

\* onClose of a host: Expenses sets its toast to null, Dashboard hides it
ToastOnClose(h) ==
    /\ pageToast' = IF h = "Expenses" THEN "null" ELSE pageToast
    /\ dashToast' = IF h = "Dashboard" THEN [dashToast EXCEPT !.isVisible = FALSE]
                    ELSE dashToast
    /\ RenderToasts(pageToast', dashToast')
    /\ UNCHANGED <<pendingWrites, storeCalls>>

\* the timer of a Toast runs out: onClose()
ToastTimerFires ==
    \E h \in ToastHosts :
        /\ toastView[h].timer
        /\ ToastOnClose(h)

\* a click on the element of a Toast: onClose()
ToastClicked ==
    \E h \in ToastHosts :
        /\ toastView[h].element
        /\ ToastOnClose(h)

----------------------------------------------------------------------------
(* AuthProvider and the two PrivateRoute components *)

AuthUsers == {"u1", "u2"}

NoAuthUser == "null"

\* the auth states that may await the listener
AuthQueueSizes == {0, 1, 2}

\* the paths of the dashboard route and of its nested routes
ProtectedPaths == {"/dashboard", "/dashboard/expenses", "/dashboard/reports"}

Paths == ProtectedPaths \cup {"/login"}

\* pages/PrivateRoute.jsx and components/Layout/PrivateRoute.jsx
RouteVariants == {"pages", "layout"}

\* a guard that renders its children whoever is signed in
PrivateRouteOpen(user, loadingValue, redirectTo) == [out |-> "children", to |-> ""]

\* pages/PrivateRoute: currentUser ? children : <Navigate to="/login" />
PagesPrivateRoute(user) ==
    IF user # NoAuthUser THEN [out |-> "children", to |-> ""]
    ELSE [out |-> "redirect", to |-> "/login"]

\* Layout/PrivateRoute: the loading placeholder, the redirect, or children
LayoutPrivateRoute(user, loadingValue, redirectTo) ==
    IF loadingValue = "true" THEN [out |-> "placeholder", to |-> ""]
    ELSE IF user = NoAuthUser THEN [out |-> "redirect", to |-> redirectTo]
    ELSE [out |-> "children", to |-> ""]

\* the value of the context holds currentUser, signup, login and logout;
\* the loading a consumer destructures from it is undefined
ContextLoading == "undefined"

\* a render of the tree: AuthProvider renders its children only when not
\* loading, and the route is mounted only at its path
RenderRoute(variant, user, isLoading, path) ==
    IF isLoading THEN [out |-> "nothing", to |-> ""]
    ELSE IF path \notin ProtectedPaths THEN [out |-> "unmounted", to |-> ""]
    ELSE IF variant = "pages" THEN PagesPrivateRoute(user)
    ELSE LayoutPrivateRoute(user, ContextLoading, "/login")

\* the render after a change of state, and the navigation of <Navigate>
RenderRoutes(user, isLoading, path) ==
    /\ routeView' = [v \in RouteVariants |-> RenderRoute(v, user, isLoading, path).out]
    /\ location' = IF \E v \in RouteVariants : RenderRoute(v, user, isLoading, path).out = "redirect"
                   THEN "/login" ELSE path

AuthInit ==
    /\ authState \in AuthUsers \cup {NoAuthUser}
    /\ authQueue = <<authState>>
    /\ currentUser = NoAuthUser
    /\ loading = TRUE
    /\ callbackPhase = "idle"
    /\ location \in Paths
    /\ routeView = [v \in RouteVariants |-> "nothing"]

AuthIdleInit ==
    /\ authState = NoAuthUser
    /\ authQueue = <<authState>>
    /\ currentUser = NoAuthUser
    /\ loading = TRUE
    /\ callbackPhase = "idle"
    /\ location = "/login"
    /\ routeView = [v \in RouteVariants |-> "nothing"]

\* login or signup resolves for a user
SignIn ==
    \E u \in AuthUsers :
        /\ authState = NoAuthUser
        /\ Len(authQueue) \in AuthQueueSizes
        /\ authState' = u
        /\ authQueue' = Append(authQueue, u)
        /\ UNCHANGED <<currentUser, loading, callbackPhase, location, routeView>>

\* logout resolves
SignOut ==
    /\ authState # NoAuthUser
    /\ Len(authQueue) \in AuthQueueSizes
    /\ authState' = NoAuthUser
    /\ authQueue' = Append(authQueue, NoAuthUser)
    /\ UNCHANGED <<currentUser, loading, callbackPhase, location, routeView>>

\* the listener of onAuthStateChanged with both updates in one render
AuthStateChanged ==
    /\ callbackPhase = "idle"
    /\ authQueue # <<>>
    /\ currentUser' = Head(authQueue)
    /\ loading' = FALSE
    /\ authQueue' = Tail(authQueue)
    /\ RenderRoutes(currentUser', loading', location)
    /\ UNCHANGED <<authState, callbackPhase>>

\* the listener where updates are not batched: setCurrentUser(user) and
\* its render
AuthStateSetsUser ==
    /\ callbackPhase = "idle"
    /\ authQueue # <<>>
    /\ currentUser' = Head(authQueue)
    /\ callbackPhase' = "userSet"
    /\ RenderRoutes(currentUser', loading, location)
    /\ UNCHANGED <<authState, authQueue, loading>>

\* then setLoading(false) and its render
AuthStateSetsLoading ==
    /\ callbackPhase = "userSet"
    /\ loading' = FALSE
    /\ callbackPhase' = "idle"
    /\ authQueue' = Tail(authQueue)
    /\ RenderRoutes(currentUser, loading', location)
    /\ UNCHANGED <<authState, currentUser>>

\* the user opens a path
OpenPath ==
    \E path \in Paths :
        /\ callbackPhase = "idle"
        /\ path # location
        /\ RenderRoutes(currentUser, loading, path)
        /\ UNCHANGED <<authState, authQueue, currentUser, loading, callbackPhase>>

----------------------------------------------------------------------------
(* Reports: renders and the filter effect that follows them *)

\* the snapshots pushed to the page: none, or one record
RenderSnapshots == {snapshot \in DatedSnapshots : Len(snapshot) <= 1}

\* what a render of the page shows: the state it was called with; the
\* aggregates are computed from filteredExpenses during the render
RenderReports(held, range, filtered, phase) ==
    painted' = [held |-> held, range |-> range, filtered |-> filtered,
                crashed |-> phase = "crashed"]

RenderInit ==
    /\ effectPending = FALSE
    /\ painted = [held |-> <<>>, range |-> "all", filtered |-> <<>>, crashed |-> FALSE]

RenderIdleInit == RenderInit

\* the onSnapshot callback: setExpenses(expensesData) and the render it
\* causes, which still holds the filteredExpenses of the render before; the
\* effect of a render runs before the next update is rendered
ReportsSnapshotRendered ==
    /\ ReportsAlive
    /\ ~effectPending
    /\ \E snapshot \in RenderSnapshots :
        /\ snapshot # reportsExpenses
        /\ snapshotDocs' = snapshot
        /\ reportsExpenses' = snapshot
        /\ RenderReports(snapshot, dateFilter, filteredExpenses, reportsPhase)
    /\ effectPending' = TRUE
    /\ UNCHANGED <<filteredExpenses, dateFilter, customDateRange, now, dateFns,
                   reportsPhase, firstPass, overviewExpenses>>

\* a filter button: setDateFilter(range) and the render it causes
ReportsFilterRendered ==
    /\ ReportsAlive
    /\ ~effectPending
    /\ \E range \in DateFilters :
        /\ range # dateFilter
        /\ dateFilter' = range
        /\ RenderReports(reportsExpenses, range, filteredExpenses, reportsPhase)
    /\ effectPending' = TRUE
    /\ UNCHANGED <<snapshotDocs, reportsExpenses, filteredExpenses, customDateRange,
                   now, dateFns, reportsPhase, firstPass, overviewExpenses>>

\* the effect of the render: filterExpenses() with setFilteredExpenses, and
\* the render that causes
ReportsFilterEffect ==
    /\ effectPending
    /\ RunFilterEffect(reportsExpenses, dateFilter, customDateRange, "loaded")
    /\ RenderReports(reportsExpenses', dateFilter, filteredExpenses', reportsPhase')
    /\ effectPending' = FALSE
    /\ UNCHANGED <<snapshotDocs, dateFilter, customDateRange, now, dateFns,
                   firstPass, overviewExpenses>>

----------------------------------------------------------------------------
(* The subscriptions of ExpenseForm and Expenses, and subscribeToExpenses *)

\* the components that subscribe, and a caller of subscribeToExpenses
Subscribers == {"ExpenseForm", "Expenses", "subscribeToExpenses"}

\* the listeners each of them sets up, in order
ListenerCount(o) == IF o = "Expenses" THEN 2 ELSE 1

\* the runs of one cleanup
CleanupRuns == {0, 1}

\* the set-up of an effect: no user, or the store call that throws (0: none)
SetUps(o) == [user : BOOLEAN, failedAt : 0..ListenerCount(o)]

\* the listeners after a set-up that stopped at the call that threw
ListenersAfter(o, failedAt) ==
    [k \in 1..ListenerCount(o) |->
        IF failedAt = 0 \/ k < failedAt THEN "active" ELSE "none"]

\* a cleanup is returned whatever the set-up did
AlwaysReturnsCleanup(setup) == TRUE

\* ExpenseForm returns its cleanup once currentUser is set: the set-up is
\* inside a try block
FormReturnsCleanup(setup) == setup.user

\* Expenses returns its cleanup after both onSnapshot calls have returned
ExpensesReturnsCleanup(setup) == setup.user /\ setup.failedAt = 0

\* subscribeToExpenses returns the unsubscribe of onSnapshot, and throws
\* without a userId or when the set-up throws
ServiceReturnsUnsubscribe(setup) == setup.user /\ setup.failedAt = 0

\* the unsubscribe functions a cleanup holds: ExpenseForm starts from a
\* no-op, the others hold what onSnapshot returned, if it returned
HandlesAfter(o, setup) ==
    [k \in 1..ListenerCount(o) |->
        IF setup.user /\ ListenersAfter(o, setup.failedAt)[k] = "active" THEN "listener"
        ELSE IF o = "ExpenseForm" THEN "noop"
        ELSE "undefined"]

SubscriberAfter(o, setup) ==
    [phase |-> IF o = "ExpenseForm" \/ ~setup.user \/ setup.failedAt = 0
               THEN "mounted" ELSE "threw",
     cleanup |-> CASE o = "ExpenseForm" -> FormReturnsCleanup(setup)
                   [] o = "Expenses" -> ExpensesReturnsCleanup(setup)
                   [] OTHER -> ServiceReturnsUnsubscribe(setup),
     handles |-> HandlesAfter(o, setup),
     listeners |-> IF setup.user THEN ListenersAfter(o, setup.failedAt)
                   ELSE [k \in 1..ListenerCount(o) |-> "none"],
     received |-> FALSE,
     runs |-> 0]

\* one call of a held unsubscribe: a call of undefined is a TypeError; the
\* unsubscribe of onSnapshot and the no-op may be called again
CallThrows(handle) == handle = "undefined"

\* the cleanup of ExpenseForm calls inside try and only a function; the
\* others call what they hold
CleanupThrows(o, sub) ==
    /\ o # "ExpenseForm"
    /\ \E k \in 1..ListenerCount(o) : CallThrows(sub.handles[k])

\* the listeners after the cleanup: those called before a throw are removed
ListenersAfterCleanup(o, sub) ==
    [k \in 1..ListenerCount(o) |->
        IF /\ sub.handles[k] = "listener"
           /\ (o = "ExpenseForm" \/ \A j \in 1..k : ~CallThrows(sub.handles[j]))
           /\ sub.listeners[k] = "active"
        THEN "closed" ELSE sub.listeners[k]]

SubsInit ==
    /\ subs = [o \in Subscribers |->
                 [phase |-> "unmounted", cleanup |-> FALSE,
                  handles |-> [k \in 1..ListenerCount(o) |-> "undefined"],
                  listeners |-> [k \in 1..ListenerCount(o) |-> "none"],
                  received |-> FALSE,
                  runs |-> 0]]
    /\ cleanupError = FALSE
    /\ lateUpdate = FALSE

SubsIdleInit == SubsInit

\* the effect of a component runs, or subscribeToExpenses is called
SetUpSubscription ==
    \E o \in Subscribers : \E setup \in SetUps(o) :
        /\ subs[o].phase = "unmounted"
        /\ subs' = [subs EXCEPT ![o] = SubscriberAfter(o, setup)]
        /\ UNCHANGED <<cleanupError, lateUpdate>>

\* the cleanup that was returned runs: on unmount, on a change of
\* currentUser, and again when it is called again
RunCleanup ==
    \E o \in Subscribers :
        /\ subs[o].cleanup
        /\ subs[o].runs \in CleanupRuns
        /\ subs' = [subs EXCEPT ![o].runs = @ + 1,
                                ![o].listeners = ListenersAfterCleanup(o, subs[o])]
        /\ cleanupError' = (cleanupError \/ CleanupThrows(o, subs[o]))
        /\ UNCHANGED lateUpdate

\* the store calls the callback of a listener that has not been removed,
\* and the callback sets the state of its component
SnapshotCallback ==
    \E o \in Subscribers : \E k \in 1..ListenerCount(o) :
        /\ subs[o].listeners[k] = "active"
        /\ subs' = [subs EXCEPT ![o].received = TRUE]
        /\ lateUpdate' = (lateUpdate \/ subs[o].runs > 0)
        /\ UNCHANGED cleanupError

----------------------------------------------------------------------------
(* Signup: validatePassword and handleSubmit *)

\* the characters /[A-Z]/, /[a-z]/ and /\d/ match
UpperCaseChars ==
    {"A", "B", "C", "D", "E", "F", "G", "H", "I", "J", "K", "L", "M",
     "N", "O", "P", "Q", "R", "S", "T", "U", "V", "W", "X", "Y", "Z"}

LowerCaseChars ==
    {"a", "b", "c", "d", "e", "f", "g", "h", "i", "j", "k", "l", "m",
     "n", "o", "p", "q", "r", "s", "t", "u", "v", "w", "x", "y", "z"}

DigitCharSet == {"0", "1", "2", "3", "4", "5", "6", "7", "8", "9"}

\* regex.test(text) for a class of characters
TestClass(class, text) == \E i \in 1..Len(text) : text[i] \in class

\* validatePassword with the length its comment names
validatePasswordOfSix(password) ==
    IF Len(password) < 6 THEN [isValid |-> FALSE, message |-> "length"]
    ELSE IF ~TestClass(UpperCaseChars, password) THEN [isValid |-> FALSE, message |-> "uppercase"]
    ELSE IF ~TestClass(LowerCaseChars, password) THEN [isValid |-> FALSE, message |-> "lowercase"]
    ELSE IF ~TestClass(DigitCharSet, password) THEN [isValid |-> FALSE, message |-> "number"]
    ELSE [isValid |-> TRUE, message |-> "ok"]

validatePassword(password) ==
    IF ~(Len(password) >= 8) THEN [isValid |-> FALSE, message |-> "length"]
    ELSE IF ~TestClass(UpperCaseChars, password) THEN [isValid |-> FALSE, message |-> "uppercase"]
    ELSE IF ~TestClass(LowerCaseChars, password) THEN [isValid |-> FALSE, message |-> "lowercase"]
    ELSE IF ~TestClass(DigitCharSet, password) THEN [isValid |-> FALSE, message |-> "number"]
    ELSE [isValid |-> TRUE, message |-> "ok"]

\* the characters that set the classes of a password apart: a letter of
\* each case, a digit, and a capital letter outside A-Z
PasswordCores ==
    {<<>>} \cup {<<a>> : a \in {"Q", "q", "7", "É"}}
           \cup {<<a, b>> : a, b \in {"Q", "q", "7"}}
           \cup {<<a, b, c>> : a, b, c \in {"Q", "q", "7"}}

RECURSIVE Filler(_)
Filler(n) == IF n = 0 THEN <<>> ELSE <<"-">> \o Filler(n - 1)

\* the passwords typed: a core filled up to 7, 8 or 9 characters
PasswordInputs ==
    {core \o Filler(n - Len(core)) : core \in PasswordCores, n \in {7, 8, 9}}

\* the confirmation typed: the password, or the password with one more
\* character
ConfirmInputs(password) == {password, password \o <<"-">>}

\* the error codes a rejected signup carries
SignupErrorCodes == {"auth/email-already-in-use", "auth/invalid-email",
                     "auth/weak-password", "auth/network-request-failed"}

SignupErrorMessage(code) ==
    CASE code = "auth/email-already-in-use" -> "exists"
      [] code = "auth/invalid-email" -> "email"
      [] code = "auth/weak-password" -> "weak"
      [] OTHER -> "failed"

NoRequest == [state |-> "none", password |-> <<>>]

SignupInit ==
    /\ signupForm = [password |-> <<>>, confirmPassword |-> <<>>]
    /\ signupError = ""
    /\ signupLoading = FALSE
    /\ signupRequest = NoRequest
    /\ signupPath = "/signup"

SignupIdleInit == SignupInit

\* handleSubmit up to its await or its return; the button is disabled while
\* loading
SignupSubmit ==
    \E password \in PasswordInputs : \E confirmPassword \in ConfirmInputs(password) :
        /\ signupPath = "/signup"
        /\ ~signupLoading
        /\ signupForm' = [password |-> password, confirmPassword |-> confirmPassword]
        /\ LET passwordValidation == validatePassword(password)
           IN  IF ~passwordValidation.isValid
               THEN /\ signupError' = passwordValidation.message
                    /\ UNCHANGED <<signupLoading, signupRequest>>
               ELSE IF password # confirmPassword
               THEN /\ signupError' = "mismatch"
                    /\ UNCHANGED <<signupLoading, signupRequest>>
               ELSE /\ signupError' = ""
                    /\ signupLoading' = TRUE
                    /\ signupRequest' = [state |-> "pending", password |-> password]
        /\ UNCHANGED signupPath

\* signup resolves: navigate('/dashboard'), then finally
SignupResolves ==
    /\ signupRequest.state = "pending"
    /\ signupRequest' = [signupRequest EXCEPT !.state = "resolved"]
    /\ signupPath' = "/dashboard"
    /\ signupLoading' = FALSE
    /\ UNCHANGED <<signupForm, signupError>>

\* signup rejects: the message of the error code, then finally
SignupRejects ==
    \E code \in SignupErrorCodes :
        /\ signupRequest.state = "pending"
        /\ signupRequest' = [signupRequest EXCEPT !.state = "rejected"]
        /\ signupError' = SignupErrorMessage(code)
        /\ signupLoading' = FALSE
        /\ UNCHANGED <<signupForm, signupPath>>

----------------------------------------------------------------------------
(* expenseUtils.js: sortExpensesByDate *)

\* longest array handed to sortExpensesByDate
MaxSortRecords == 3

\* new Date(expense.date) as a sort key: its day, or NaN for Invalid Date
DateKey(expense) ==
    LET date == IF expense.date.t = "string" THEN ParseYMD(expense.date.s)
                ELSE InvalidDate
    IN  [nan |-> ~date.ok,
         day |-> IF date.ok THEN DayNumber(date.y, date.m, date.d) ELSE 0]

\* a comparator that puts the oldest first
CompareOldestFirst(a, b) == IF a.nan \/ b.nan THEN 0 ELSE a.day - b.day

\* (a, b) => new Date(b.date) - new Date(a.date); sort takes NaN as 0
CompareNewestFirst(a, b) == IF a.nan \/ b.nan THEN 0 ELSE b.day - a.day

RECURSIVE InsertNewestFirst(_, _, _)
InsertNewestFirst(sorted, i, keys) ==
    IF sorted = <<>> THEN <<i>>
    ELSE IF CompareNewestFirst(keys[sorted[Len(sorted)]], keys[i]) <= 0
         THEN Append(sorted, i)
    ELSE Append(InsertNewestFirst(SubSeq(sorted, 1, Len(sorted) - 1), i, keys),
                sorted[Len(sorted)])

RECURSIVE NewestFirstOrder(_, _)
NewestFirstOrder(n, keys) ==
    IF n = 0 THEN <<>> ELSE InsertNewestFirst(NewestFirstOrder(n - 1, keys), n, keys)

\* comparing equal is transitive
ConsistentNewestFirst(keys) ==
    \A i, j, k \in DOMAIN keys :
        (CompareNewestFirst(keys[i], keys[j]) = 0 /\ CompareNewestFirst(keys[j], keys[k]) = 0)
            => CompareNewestFirst(keys[i], keys[k]) = 0

\* sortExpensesByDate(expenses): [] for what is no array; else a copy,
\* sorted: in the stable order, or with an inconsistent comparator in an
\* order the engine chooses. The input array is left as it is.
sortExpensesByDate(expenses) ==
    IF expenses.t # "array" THEN {[out |-> <<>>, inputAfter |-> expenses]}
    ELSE LET a == expenses.a
             keys == [i \in 1..Len(a) |-> DateKey(a[i])]
             order == NewestFirstOrder(Len(a), keys)
         IN  IF ConsistentNewestFirst(keys)
             THEN {[out |-> [i \in 1..Len(a) |-> a[order[i]]], inputAfter |-> expenses]}
             ELSE {[out |-> sorted, inputAfter |-> expenses] : sorted \in Reorderings(a)}

\* the dates of the records sorted: three days, no date, an unparsable text
SortDates == {Undefined, Str(<<"b", "a", "d">>), Str(FormatISO(2024, 1, 15)),
              Str(FormatISO(2024, 2, 10)), Str(FormatISO(2024, 1, 20))}

SortRecords == {Expense(0, Str(<<"a">>), Num(1), "Food", date) : date \in SortDates}

NoSortResult == [done |-> FALSE, out |-> <<>>, inputAfter |-> JsNullish("null")]

SortInit ==
    /\ sortInput \in {JsArray(WithIds(b)) : b \in SeqsUpTo(SortRecords, MaxSortRecords)}
                        \cup {JsNullish("null"), JsNullish("undefined")}
    /\ sortOut = NoSortResult

SortIdleInit ==
    /\ sortInput = JsNullish("null")
    /\ sortOut = NoSortResult

\* a caller sorts the input
CallSort ==
    /\ ~sortOut.done
    /\ \E result \in sortExpensesByDate(sortInput) :
          sortOut' = [done |-> TRUE, out |-> result.out, inputAfter |-> result.inputAfter]
    /\ UNCHANGED sortInput

----------------------------------------------------------------------------
(* Reports: exportToCSV, and a reader of its lines *)

Quote == "\""
Comma == ","

RECURSIVE JoinWith(_, _)
\* Array.prototype.join of texts
JoinWith(texts, sep) ==
    IF texts = <<>> THEN <<>>
    ELSE IF Len(texts) = 1 THEN texts[1]
    ELSE texts[1] \o sep \o JoinWith(Tail(texts), sep)

\* Number.prototype.toFixed(2) of a number of hundredths, and of NaN
toFixed2(v) ==
    IF v.t # "number" THEN <<"N", "a", "N">>
    ELSE NatToText(v.n \div 100) \o <<".">> \o Pad2(v.n % 100)

\* the row of one expense: the date, the category, the title between
\* quotes, the amount, joined by commas
csvRow(expense) ==
    JoinWith(<<format(parseISO(expense.date)),
               expense.category,
               <<Quote>> \o expense.title.s \o <<Quote>>,
               toFixed2(expense.amount)>>, <<Comma>>)

CsvHeader ==
    JoinWith(<<<<"D", "a", "t", "e">>, <<"C", "a", "t", "e", "g", "o", "r", "y">>,
               <<"T", "i", "t", "l", "e">>, <<"A", "m", "o", "u", "n", "t">>>>, <<Comma>>)

\* the lines of csvContent: the header and one row per filtered expense
exportToCSV(filtered) == <<CsvHeader>> \o [i \in 1..Len(filtered) |-> csvRow(filtered[i])]

\* the fields a CSV reader finds in a line: a field that starts with a quote
\* runs to its closing quote, two quotes inside it are one quote; a quote
\* elsewhere and text after a closing quote are taken literally
RECURSIVE ReadCsvLine(_, _, _, _, _)
ReadCsvLine(cs, i, mode, cur, fields) ==
    IF i > Len(cs) THEN Append(fields, cur)
    ELSE LET c == cs[i]
         IN  CASE mode = "start" ->
                    IF c = Quote THEN ReadCsvLine(cs, i + 1, "quoted", <<>>, fields)
                    ELSE IF c = Comma THEN ReadCsvLine(cs, i + 1, "start", <<>>, Append(fields, <<>>))
                    ELSE ReadCsvLine(cs, i + 1, "plain", <<c>>, fields)
               [] mode = "plain" ->
                    IF c = Comma THEN ReadCsvLine(cs, i + 1, "start", <<>>, Append(fields, cur))
                    ELSE ReadCsvLine(cs, i + 1, "plain", Append(cur, c), fields)
               [] mode = "quoted" ->
                    IF c = Quote THEN ReadCsvLine(cs, i + 1, "closed", cur, fields)
                    ELSE ReadCsvLine(cs, i + 1, "quoted", Append(cur, c), fields)
               [] OTHER ->
                    IF c = Quote THEN ReadCsvLine(cs, i + 1, "quoted", Append(cur, c), fields)
                    ELSE IF c = Comma THEN ReadCsvLine(cs, i + 1, "start", <<>>, Append(fields, cur))
                    ELSE ReadCsvLine(cs, i + 1, "plain", Append(cur, c), fields)

CsvFieldsOf(line) == ReadCsvLine(line, 1, "start", <<>>, <<>>)

\* the titles and categories exported: plain, with a comma, with a quote,
\* with both
CsvTitles == {<<"a">>, <<"a", Comma, "b">>, <<"a", Quote, "b">>, <<Quote, Comma, Quote>>}

CsvCategories == {<<"F", "o", "o", "d">>, <<"R", "&", "D", Comma, "t">>}

\* amounts in hundredths: 0.05, 5.00, 12.50
CsvAmounts == {Num(5), Num(500), Num(1250)}

CsvRecords ==
    {Expense(0, Str(title), amt, cat, Str(FormatISO(2024, 1, 15))) :
        title \in CsvTitles, amt \in CsvAmounts, cat \in CsvCategories}

CsvInit ==
    /\ csvExpenses \in {WithIds(b) : b \in SeqsUpTo(CsvRecords, 2)}
    /\ csvContent = <<>>

CsvIdleInit ==
    /\ csvExpenses = <<>>
    /\ csvContent = <<>>

\* the Export CSV button
ExportCsv ==
    /\ csvContent = <<>>
    /\ csvContent' = exportToCSV(csvExpenses)
    /\ UNCHANGED csvExpenses

----------------------------------------------------------------------------
(* database.js: one addExpense call, from its arguments to its outcome *)

\* no required field is tested
NothingMissing(userId, expenseData) == FALSE

\* !userId || !expenseData.title || !expenseData.amount ||
\* !expenseData.category || !expenseData.date
MissingRequired(userId, expenseData) ==
    \/ ~Truthy(userId)
    \/ ~Truthy(expenseData.title)
    \/ ~Truthy(expenseData.amount)
    \/ ~Truthy(expenseData.category)
    \/ ~Truthy(expenseData.date)

\* { ...expenseData, userId, createdAt: serverTimestamp(), updatedAt: ... }
expenseWithMetadata(userId, expenseData) ==
    [title |-> expenseData.title, amount |-> expenseData.amount,
     category |-> expenseData.category, date |-> expenseData.date,
     userId |-> userId, createdAt |-> "serverTimestamp", updatedAt |-> "serverTimestamp"]

\* the userId and the fields of the data: present, empty, zero, NaN, absent
AddUserIds == {Str(<<"u", "1">>), Str(<<>>), Undefined, Null}

AddData ==
    [title : {Str(<<"a">>), Str(<<>>), Undefined},
     amount : {Num(100), Num(0), NaN, Undefined},
     category : {Str(<<"F", "o", "o", "d">>), Undefined},
     date : {Str(FormatISO(2024, 1, 15)), Undefined}]

\* the messages of the errors the store rejects a write with
StoreMessages == {"permission-denied", "unavailable"}

AddCallIdle == [state |-> "idle", id |-> 0, message |-> "", cause |-> ""]

AddInit ==
    /\ addArgs \in [userId : AddUserIds, expenseData : AddData]
    /\ addCall = AddCallIdle
    /\ addAttempts = 0
    /\ addWritten = <<>>

AddIdleInit ==
    /\ addArgs = [userId |-> Undefined,
                  expenseData |-> [title |-> Undefined, amount |-> Undefined,
                                   category |-> Undefined, date |-> Undefined]]
    /\ addCall = AddCallIdle
    /\ addAttempts = 0
    /\ addWritten = <<>>

\* addExpense up to its await: the validation throws into the catch block,
\* which rejects; else addDoc is called
AddExpenseCalled ==
    /\ addCall.state = "idle"
    /\ IF MissingRequired(addArgs.userId, addArgs.expenseData)
       THEN /\ addCall' = [state |-> "rejected", id |-> 0,
                           message |-> "Failed to add expense: ",
                           cause |-> "Missing required expense data"]
            /\ UNCHANGED addAttempts
       ELSE /\ addCall' = [addCall EXCEPT !.state = "pending"]
            /\ addAttempts' = addAttempts + 1
    /\ UNCHANGED <<addArgs, addWritten>>

\* addDoc resolves: the document is written and its id returned
AddDocResolves ==
    /\ addCall.state = "pending"
    /\ addWritten' = Append(addWritten,
          [collection |-> expensesCollection(addArgs.userId), id |-> Len(addWritten) + 1,
           data |-> expenseWithMetadata(addArgs.userId, addArgs.expenseData)])
    /\ addCall' = [addCall EXCEPT !.state = "resolved", !.id = Len(addWritten) + 1]
    /\ UNCHANGED <<addArgs, addAttempts>>

\* addDoc rejects: the catch block rejects with the message of the error
AddDocRejects ==
    \E message \in StoreMessages :
        /\ addCall.state = "pending"
        /\ addCall' = [state |-> "rejected", id |-> 0,
                       message |-> "Failed to add expense: ", cause |-> message]
        /\ UNCHANGED <<addArgs, addAttempts, addWritten>>

----------------------------------------------------------------------------
(* ExpenseList, with getExpenses, addExpense and deleteExpense of database.js *)

\* the user signed in, and another user
ListUser == "u1"
ListUsers == {"u1", "u2"}

\* the ids addDoc assigns under users/{uid}/expenses
ListDocIds == {1, 2}

\* documents found in the collection expenses: nothing in this repository
\* writes there
TopLevelRecords ==
    {[id |-> 101, userId |-> "u1"], [id |-> 102, userId |-> "u1"],
     [id |-> 103, userId |-> "u2"]}

NoExpense == [id |-> 0, userId |-> ""]

\* getExpenses(userId): query(collection(db, 'expenses'),
\* where('userId', '==', userId)), each document with its id
getExpenses(userId) ==
    {[id |-> d.id, userId |-> d.userId] : d \in {x \in topLevelDocs : x.userId = userId}}

\* deleteExpense(userId, expenseId): rejects when a parameter is missing,
\* else deletes doc(db, 'users', userId, 'expenses', expenseId)
deleteExpense(userId, expenseId) ==
    IF ~Truthy(userId) \/ ~Truthy(expenseId)
    THEN [rejected |-> TRUE, docs |-> userDocs]
    ELSE [rejected |-> FALSE,
          docs |-> {d \in userDocs : ~(d.collection = userId.n /\ d.id = expenseId.n)}]

ListInit ==
    /\ topLevelDocs \in SUBSET TopLevelRecords
    /\ userDocs = {}
    /\ listExpenses = {}
    /\ showDeleteModal = FALSE
    /\ expenseToDelete = NoExpense
    /\ listError = ""
    /\ confirmedDeletes = {}
    /\ readBack = [ids |-> {}, addedBefore |-> {}]

ListIdleInit ==
    /\ topLevelDocs = {}
    /\ userDocs = {}
    /\ listExpenses = {}
    /\ showDeleteModal = FALSE
    /\ expenseToDelete = NoExpense
    /\ listError = ""
    /\ confirmedDeletes = {}
    /\ readBack = [ids |-> {}, addedBefore |-> {}]

\* addExpense(userId, data) resolves with the id of the new document
ListAddExpense ==
    \E userId \in ListUsers : \E id \in ListDocIds :
        /\ \A d \in userDocs : d.id < id
        /\ id = Cardinality(userDocs) + 1
        /\ userDocs' = userDocs \cup
              {[collection |-> expensesCollection(userId), id |-> id, userId |-> userId]}
        /\ UNCHANGED <<topLevelDocs, listExpenses, showDeleteModal, expenseToDelete,
                       listError, confirmedDeletes, readBack>>

\* fetchExpenses: getExpenses(currentUser.uid) resolves and setExpenses
fetchExpenses ==
    /\ ~showDeleteModal
    /\ listExpenses' = getExpenses(ListUser)
    /\ listError' = ""
    /\ readBack' = [ids |-> {e.id : e \in listExpenses'},
                    addedBefore |-> {d.id : d \in {x \in userDocs : x.userId = ListUser}}]
    /\ UNCHANGED <<topLevelDocs, userDocs, showDeleteModal, expenseToDelete,
                   confirmedDeletes>>

\* the delete button of a row
handleDeleteClick ==
    \E expense \in listExpenses :
        /\ ~showDeleteModal
        /\ expenseToDelete' = expense
        /\ showDeleteModal' = TRUE
        /\ UNCHANGED <<topLevelDocs, userDocs, listExpenses, listError, confirmedDeletes,
                       readBack>>

\* confirmDelete: await deleteExpense(expenseToDelete.id), the id being the
\* only argument; then the expense is filtered out of the list, or the
\* catch block sets the error; both close the modal
confirmDelete ==
    /\ showDeleteModal
    /\ LET outcome == deleteExpense(Num(expenseToDelete.id), Undefined)
       IN  /\ userDocs' = outcome.docs
           /\ IF outcome.rejected
              THEN /\ listError' = "Failed to delete expense"
                   /\ UNCHANGED listExpenses
              ELSE /\ listExpenses' = {e \in listExpenses : e.id # expenseToDelete.id}
                   /\ UNCHANGED listError
    /\ confirmedDeletes' = confirmedDeletes \cup {expenseToDelete.id}
    /\ showDeleteModal' = FALSE
    /\ expenseToDelete' = NoExpense
    /\ UNCHANGED <<topLevelDocs, readBack>>

cancelDelete ==
    /\ showDeleteModal
    /\ showDeleteModal' = FALSE
    /\ expenseToDelete' = NoExpense
    /\ UNCHANGED <<topLevelDocs, userDocs, listExpenses, listError, confirmedDeletes,
                   readBack>>

----------------------------------------------------------------------------
(* The loading flags of Login, Signup and ExpenseForm *)

SubmitForms == {"Login", "Signup", "ExpenseForm"}

LoginErrorCodes == {"auth/user-not-found", "auth/wrong-password", "auth/invalid-email",
                    "other"}

\* the switch of the catch block of Login.handleSubmit
LoginErrorMessage(code) ==
    CASE code = "auth/user-not-found" -> "No account found with this email"
      [] code = "auth/wrong-password" -> "Incorrect password"
      [] code = "auth/invalid-email" -> "Invalid email format"
      [] OTHER -> "Failed to log in. Please try again."

NoSubmit == [form |-> "", mode |-> "", valid |-> FALSE]

\* the page shown; the time of day matters to the expense form only
LoadingInit ==
    /\ shownForm \in SubmitForms
    /\ shownForm # "ExpenseForm" => clock = [hour |-> 12, utcOffset |-> 0]
    /\ loginLoading = FALSE
    /\ loginError = ""
    /\ loginRequest = "none"
    /\ loginPath = "/login"
    /\ formLoading = FALSE
    /\ formRequest = "none"
    /\ updateCall = "none"
    /\ lastSubmit = NoSubmit
    /\ submitTick = 0

LoadingIdleInit ==
    /\ shownForm = "Login"
    /\ loginLoading = FALSE
    /\ loginError = ""
    /\ loginRequest = "none"
    /\ loginPath = "/login"
    /\ formLoading = FALSE
    /\ formRequest = "none"
    /\ updateCall = "none"
    /\ lastSubmit = NoSubmit
    /\ submitTick = 0

\* Login.handleSubmit up to its await; the button is disabled while loading
LoginSubmit ==
    /\ shownForm = "Login"
    /\ loginPath = "/login"
    /\ ~loginLoading
    /\ loginError' = ""
    /\ loginLoading' = TRUE
    /\ loginRequest' = "pending"
    /\ lastSubmit' = [form |-> "Login", mode |-> "login", valid |-> TRUE]
    /\ submitTick' = 1 - submitTick
    /\ UNCHANGED <<shownForm, loginPath, formLoading, formRequest, updateCall>>
    /\ UNCHANGED <<signupVars, formVars>>

\* login resolves and the finally block is skipped
LoginResolvesKeepsLoading ==
    /\ loginRequest = "pending"
    /\ loginRequest' = "resolved"
    /\ loginPath' = "/dashboard"
    /\ UNCHANGED <<shownForm, loginLoading, loginError, formLoading, formRequest,
                   updateCall, lastSubmit, submitTick>>
    /\ UNCHANGED <<signupVars, formVars>>

\* login resolves: navigate('/dashboard'), then finally
LoginResolves ==
    /\ loginRequest = "pending"
    /\ loginRequest' = "resolved"
    /\ loginPath' = "/dashboard"
    /\ loginLoading' = FALSE
    /\ UNCHANGED <<shownForm, loginError, formLoading, formRequest, updateCall,
                   lastSubmit, submitTick>>
    /\ UNCHANGED <<signupVars, formVars>>

\* login rejects: the message of the error code, then finally
LoginRejects ==
    \E code \in LoginErrorCodes :
        /\ loginRequest = "pending"
        /\ loginRequest' = "rejected"
        /\ loginError' = LoginErrorMessage(code)
        /\ loginLoading' = FALSE
        /\ UNCHANGED <<shownForm, loginPath, formLoading, formRequest, updateCall,
                       lastSubmit, submitTick>>
        /\ UNCHANGED <<signupVars, formVars>>

\* Signup.handleSubmit on the Signup page
SignupSubmitted ==
    /\ shownForm = "Signup"
    /\ SignupSubmit
    /\ lastSubmit' = [form |-> "Signup", mode |-> "signup",
                      valid |-> /\ validatePassword(signupForm'.password).isValid
                                /\ signupForm'.password = signupForm'.confirmPassword]
    /\ submitTick' = 1 - submitTick
    /\ UNCHANGED <<shownForm, loginLoading, loginError, loginRequest, loginPath,
                   formLoading, formRequest, updateCall>>
    /\ UNCHANGED formVars

SignupSettles ==
    /\ shownForm = "Signup"
    /\ SignupResolves \/ SignupRejects
    /\ UNCHANGED <<loadingVars, formVars>>

\* the add modal and the edit modal of the Expenses page open
ExpenseFormOpens ==
    /\ shownForm = "ExpenseForm"
    /\ updateCall = "none"
    /\ OpenAddForm \/ OpenEditForm
    /\ formLoading' = FALSE
    /\ formRequest' = "none"
    /\ UNCHANGED <<shownForm, loginLoading, loginError, loginRequest, loginPath,
                   updateCall, lastSubmit, submitTick>>
    /\ UNCHANGED signupVars

\* the amount and title inputs, disabled while loading
ExpenseFormTyped ==
    /\ shownForm = "ExpenseForm"
    /\ ~formLoading
    /\ handleAmountChange \/ setTitle
    /\ UNCHANGED <<loadingVars, signupVars>>

\* ExpenseForm.handleSubmit up to its await or its return: in edit mode the
\* setLoading(true) and the setLoading(false) of the finally block fall into
\* the same run of the handler, which awaits nothing
handleSubmit ==
    /\ shownForm = "ExpenseForm"
    /\ formMode # "closed"
    /\ ~formLoading
    /\ lastSubmit' = [form |-> "ExpenseForm", mode |-> formMode,
                      valid |-> validateForm.isValid]
    /\ submitTick' = 1 - submitTick
    /\ IF ~validateForm.isValid
       THEN /\ form' = [form EXCEPT !.message = validateForm.message]
            /\ UNCHANGED <<formLoading, formRequest, updateCall>>
       ELSE IF formMode = "edit"
       THEN /\ form' = [form EXCEPT !.message = ""]
            /\ updateCall' = "pending"
            /\ UNCHANGED <<formLoading, formRequest>>
       ELSE /\ form' = [form EXCEPT !.message = ""]
            /\ formLoading' = TRUE
            /\ formRequest' = "pending"
            /\ UNCHANGED updateCall
    /\ UNCHANGED <<formMode, clock, written>>
    /\ UNCHANGED <<shownForm, loginLoading, loginError, loginRequest, loginPath>>
    /\ UNCHANGED signupVars

\* addExpense resolves: the success message, the reset of the fields,
\* onExpenseAdded, which closes the modal, then finally
AddExpenseResolves ==
    /\ formRequest = "pending"
    /\ formRequest' = "resolved"
    /\ written' = [op |-> "addDoc", id |-> 0, doc |-> SubmittedData]
    /\ formMode' = "closed"
    /\ form' = NoForm
    /\ formLoading' = FALSE
    /\ UNCHANGED clock
    /\ UNCHANGED <<shownForm, loginLoading, loginError, loginRequest, loginPath,
                   updateCall, lastSubmit, submitTick>>
    /\ UNCHANGED signupVars

\* addExpense rejects: the error message, then finally
AddExpenseRejects ==
    /\ formRequest = "pending"
    /\ formRequest' = "rejected"
    /\ form' = [form EXCEPT !.message = "Failed to add expense"]
    /\ formLoading' = FALSE
    /\ UNCHANGED <<formMode, clock, written>>
    /\ UNCHANGED <<shownForm, loginLoading, loginError, loginRequest, loginPath,
                   updateCall, lastSubmit, submitTick>>
    /\ UNCHANGED signupVars

\* Expenses.handleUpdateExpense settles: on success the modal closes
UpdateExpenseSettles ==
    \E storeAccepts \in BOOLEAN :
        /\ updateCall = "pending"
        /\ updateCall' = "none"
        /\ IF storeAccepts /\ formMode = "edit"
           THEN /\ written' = [op |-> "updateDoc", id |-> form.editId,
                               doc |-> [SubmittedData EXCEPT
                                           !.amount = ParseFloat(SubmittedData.amount)]]
                /\ formMode' = "closed"
                /\ form' = NoForm
           ELSE UNCHANGED <<formMode, form, written>>
        /\ UNCHANGED clock
        /\ UNCHANGED <<shownForm, loginLoading, loginError, loginRequest, loginPath,
                       formLoading, formRequest, lastSubmit, submitTick>>
        /\ UNCHANGED signupVars

----------------------------------------------------------------------------
(* Specifications *)

SpecExpenseUtilsInit ==
    /\ UtilsInit
    /\ ValidateIdleInit
    /\ FormIdleInit
    /\ ReportsIdleInit
    /\ CategoriesIdleInit
    /\ StoreIdleInit
    /\ ToastIdleInit
    /\ AuthIdleInit
    /\ RenderIdleInit
    /\ SubsIdleInit
    /\ SignupIdleInit
    /\ SortIdleInit
    /\ CsvIdleInit
    /\ AddIdleInit
    /\ ListIdleInit
    /\ LoadingIdleInit

SpecExpenseUtilsNext ==
    /\ \/ CallTotals
    /\ UNCHANGED <<valVars, formVars, reportVars, catVars, storeVars,
                  toastVars, authVars, renderVars, subVars, signupVars,
                  sortVars, csvVars, addVars, listVars, loadingVars>>

\* the three totals of expenseUtils.js applied to one input
SpecExpenseUtils == SpecExpenseUtilsInit /\ [][SpecExpenseUtilsNext]_vars

SpecValidateInit ==
    /\ ValidateInit
    /\ UtilsIdleInit
    /\ FormIdleInit
    /\ ReportsIdleInit
    /\ CategoriesIdleInit
    /\ StoreIdleInit
    /\ ToastIdleInit
    /\ AuthIdleInit
    /\ RenderIdleInit
    /\ SubsIdleInit
    /\ SignupIdleInit
    /\ SortIdleInit
    /\ CsvIdleInit
    /\ AddIdleInit
    /\ ListIdleInit
    /\ LoadingIdleInit

SpecValidateNext ==
    /\ \/ CallValidateExpense
    /\ UNCHANGED <<utilVars, formVars, reportVars, catVars, storeVars,
                  toastVars, authVars, renderVars, subVars, signupVars,
                  sortVars, csvVars, addVars, listVars, loadingVars>>

\* validateExpense applied to one candidate
SpecValidate == SpecValidateInit /\ [][SpecValidateNext]_vars

SpecExpenseFormInit ==
    /\ FormInit
    /\ UtilsIdleInit
    /\ ValidateIdleInit
    /\ ReportsIdleInit
    /\ CategoriesIdleInit
    /\ StoreIdleInit
    /\ ToastIdleInit
    /\ AuthIdleInit
    /\ RenderIdleInit
    /\ SubsIdleInit
    /\ SignupIdleInit
    /\ SortIdleInit
    /\ CsvIdleInit
    /\ AddIdleInit
    /\ ListIdleInit
    /\ LoadingIdleInit

SpecExpenseFormNext ==
    /\ \/ OpenAddForm
       \/ OpenEditForm
       \/ CloseForm
       \/ handleAmountChange
       \/ setTitle
       \/ setCategory
       \/ setDate
       \/ SubmitInvalid
       \/ SubmitAdd
       \/ SubmitEdit
    /\ UNCHANGED <<utilVars, valVars, reportVars, catVars, storeVars,
                  toastVars, authVars, renderVars, subVars, signupVars,
                  sortVars, csvVars, addVars, listVars, loadingVars>>

\* the expense form of the Expenses page, in add mode and in edit mode
SpecExpenseForm == SpecExpenseFormInit /\ [][SpecExpenseFormNext]_vars

SpecReportsFilterInit ==
    /\ ReportsInit
    /\ UtilsIdleInit
    /\ ValidateIdleInit
    /\ FormIdleInit
    /\ CategoriesIdleInit
    /\ StoreIdleInit
    /\ ToastIdleInit
    /\ AuthIdleInit
    /\ RenderIdleInit
    /\ SubsIdleInit
    /\ SignupIdleInit
    /\ SortIdleInit
    /\ CsvIdleInit
    /\ AddIdleInit
    /\ ListIdleInit
    /\ LoadingIdleInit

SpecReportsFilterNext ==
    /\ \/ ReportsOnSnapshot
       \/ SetDateFilter
       \/ SetCustomStartDate
       \/ SetCustomEndDate
       \/ ReportsOnSnapshotOfFiltered
    /\ UNCHANGED <<utilVars, valVars, formVars, catVars, storeVars,
                  toastVars, authVars, renderVars, subVars, signupVars,
                  sortVars, csvVars, addVars, listVars, loadingVars>>

\* the Reports page: a snapshot arrives, the range is changed, and the store
\* delivers the filtered set back
SpecReportsFilter == SpecReportsFilterInit /\ [][SpecReportsFilterNext]_vars

SpecReportsTopInit ==
    /\ TopInit
    /\ UtilsIdleInit
    /\ ValidateIdleInit
    /\ FormIdleInit
    /\ CategoriesIdleInit
    /\ StoreIdleInit
    /\ ToastIdleInit
    /\ AuthIdleInit
    /\ RenderIdleInit
    /\ SubsIdleInit
    /\ SignupIdleInit
    /\ SortIdleInit
    /\ CsvIdleInit
    /\ AddIdleInit
    /\ ListIdleInit
    /\ LoadingIdleInit

SpecReportsTopNext ==
    /\ \/ ReportsOnSpendingSnapshot
       \/ OverviewOnSnapshot
    /\ UNCHANGED <<utilVars, valVars, formVars, catVars, storeVars,
                  toastVars, authVars, renderVars, subVars, signupVars,
                  sortVars, csvVars, addVars, listVars, loadingVars>>

\* the top category of the Reports page and of the overview, for the
\* snapshot each receives
SpecReportsTop == SpecReportsTopInit /\ [][SpecReportsTopNext]_vars

SpecAggregatesInit ==
    /\ FormInit
    /\ TopInit
    /\ UtilsIdleInit
    /\ ValidateIdleInit
    /\ CategoriesIdleInit
    /\ StoreIdleInit
    /\ ToastIdleInit
    /\ AuthIdleInit
    /\ RenderIdleInit
    /\ SubsIdleInit
    /\ SignupIdleInit
    /\ SortIdleInit
    /\ CsvIdleInit
    /\ AddIdleInit
    /\ ListIdleInit
    /\ LoadingIdleInit

SpecAggregatesNext ==
    /\ \/ ReportsOnTrendSnapshot
       \/ OverviewOnTrendSnapshot
    /\ UNCHANGED <<utilVars, valVars, formVars, catVars, storeVars,
                  toastVars, authVars, renderVars, subVars, signupVars,
                  sortVars, csvVars, addVars, listVars, loadingVars>>

\* the aggregates of the Reports page and of the overview, for the snapshot
\* each receives and the time zone of the browser
SpecAggregates == SpecAggregatesInit /\ [][SpecAggregatesNext]_vars

SpecCategoriesInit ==
    /\ CategoriesInit
    /\ UtilsIdleInit
    /\ ValidateIdleInit
    /\ FormIdleInit
    /\ ReportsIdleInit
    /\ StoreIdleInit
    /\ ToastIdleInit
    /\ AuthIdleInit
    /\ RenderIdleInit
    /\ SubsIdleInit
    /\ SignupIdleInit
    /\ SortIdleInit
    /\ CsvIdleInit
    /\ AddIdleInit
    /\ ListIdleInit
    /\ LoadingIdleInit

SpecCategoriesNext ==
    /\ \/ handleAddCategory
       \/ CategoriesOnExpensesSnapshot
    /\ UNCHANGED <<utilVars, valVars, formVars, reportVars, storeVars,
                  toastVars, authVars, renderVars, subVars, signupVars,
                  sortVars, csvVars, addVars, listVars, loadingVars>>

\* the Categories page: custom categories are added and expense snapshots
\* arrive
SpecCategories == SpecCategoriesInit /\ [][SpecCategoriesNext]_vars

SpecStoreInit ==
    /\ StoreInit
    /\ UtilsIdleInit
    /\ ValidateIdleInit
    /\ FormIdleInit
    /\ ReportsIdleInit
    /\ CategoriesIdleInit
    /\ ToastIdleInit
    /\ AuthIdleInit
    /\ RenderIdleInit
    /\ SubsIdleInit
    /\ SignupIdleInit
    /\ SortIdleInit
    /\ CsvIdleInit
    /\ AddIdleInit
    /\ ListIdleInit
    /\ LoadingIdleInit

SpecStoreNext ==
    /\ \/ addExpense
       \/ updateExpense
       \/ deleteExpenseCall
       \/ deleteExpenseResolve
       \/ subscribeToExpenses
       \/ DeliverSnapshot
       \/ UnsubscribeFromExpenses
    /\ UNCHANGED <<utilVars, valVars, formVars, reportVars, catVars,
                  toastVars, authVars, renderVars, subVars, signupVars,
                  sortVars, csvVars, addVars, listVars, loadingVars>>

\* the database service against the store: writes of two users, their
\* listeners and the snapshots delivered
SpecStore == SpecStoreInit /\ [][SpecStoreNext]_vars

SpecToastsInit ==
    /\ ToastInit
    /\ UtilsIdleInit
    /\ ValidateIdleInit
    /\ FormIdleInit
    /\ ReportsIdleInit
    /\ CategoriesIdleInit
    /\ StoreIdleInit
    /\ AuthIdleInit
    /\ RenderIdleInit
    /\ SubsIdleInit
    /\ SignupIdleInit
    /\ SortIdleInit
    /\ CsvIdleInit
    /\ AddIdleInit
    /\ ListIdleInit
    /\ LoadingIdleInit

SpecToastsNext ==
    /\ \/ PageWriteStarts
       \/ PageWriteResolves
       \/ PageWriteRejected
       \/ handleExpenseAdded
       \/ ToastTimerFires
       \/ ToastClicked
    /\ UNCHANGED <<utilVars, valVars, formVars, reportVars, catVars,
                  storeVars, authVars, renderVars, subVars, signupVars,
                  sortVars, csvVars, addVars, listVars, loadingVars>>

\* the notifications: writes of the Expenses page resolve or are rejected,
\* and the Toast of the Expenses page and of the Dashboard render and close
SpecToasts == SpecToastsInit /\ [][SpecToastsNext]_vars

SpecAuthInit ==
    /\ AuthInit
    /\ UtilsIdleInit
    /\ ValidateIdleInit
    /\ FormIdleInit
    /\ ReportsIdleInit
    /\ CategoriesIdleInit
    /\ StoreIdleInit
    /\ ToastIdleInit
    /\ RenderIdleInit
    /\ SubsIdleInit
    /\ SignupIdleInit
    /\ SortIdleInit
    /\ CsvIdleInit
    /\ AddIdleInit
    /\ ListIdleInit
    /\ LoadingIdleInit

SpecAuthNext ==
    /\ \/ SignIn
       \/ SignOut
       \/ AuthStateChanged
       \/ AuthStateSetsUser
       \/ AuthStateSetsLoading
       \/ OpenPath
    /\ UNCHANGED <<utilVars, valVars, formVars, reportVars, catVars,
                  storeVars, toastVars, renderVars, subVars, signupVars,
                  sortVars, csvVars, addVars, listVars, loadingVars>>

\* route protection: the auth state changes, the listener of AuthProvider
\* reports it, and the protected routes render
SpecAuth == SpecAuthInit /\ [][SpecAuthNext]_vars

SpecReportsRenderInit ==
    /\ ReportsInit
    /\ RenderInit
    /\ UtilsIdleInit
    /\ ValidateIdleInit
    /\ FormIdleInit
    /\ CategoriesIdleInit
    /\ StoreIdleInit
    /\ ToastIdleInit
    /\ AuthIdleInit
    /\ SubsIdleInit
    /\ SignupIdleInit
    /\ SortIdleInit
    /\ CsvIdleInit
    /\ AddIdleInit
    /\ ListIdleInit
    /\ LoadingIdleInit

SpecReportsRenderNext ==
    /\ \/ ReportsSnapshotRendered
       \/ ReportsFilterRendered
       \/ ReportsFilterEffect
    /\ UNCHANGED <<utilVars, valVars, formVars, catVars, storeVars,
                  toastVars, authVars, subVars, signupVars, sortVars,
                  csvVars, addVars, listVars, loadingVars>>

\* the renders of the Reports page: a snapshot or a filter change is
\* rendered, then the filter effect runs and its result is rendered
SpecReportsRender == SpecReportsRenderInit /\ [][SpecReportsRenderNext]_vars

SpecSubscriptionsInit ==
    /\ SubsInit
    /\ UtilsIdleInit
    /\ ValidateIdleInit
    /\ FormIdleInit
    /\ ReportsIdleInit
    /\ CategoriesIdleInit
    /\ StoreIdleInit
    /\ ToastIdleInit
    /\ AuthIdleInit
    /\ RenderIdleInit
    /\ SignupIdleInit
    /\ SortIdleInit
    /\ CsvIdleInit
    /\ AddIdleInit
    /\ ListIdleInit
    /\ LoadingIdleInit

SpecSubscriptionsNext ==
    /\ \/ SetUpSubscription
       \/ RunCleanup
       \/ SnapshotCallback
    /\ UNCHANGED <<utilVars, valVars, formVars, reportVars, catVars,
                  storeVars, toastVars, authVars, renderVars, signupVars,
                  sortVars, csvVars, addVars, listVars, loadingVars>>

\* the subscriptions: set-ups that succeed, throw or find no user, the
\* cleanups run and run again, and the store calls the callbacks
SpecSubscriptions == SpecSubscriptionsInit /\ [][SpecSubscriptionsNext]_vars

SpecSignupInit ==
    /\ SignupInit
    /\ UtilsIdleInit
    /\ ValidateIdleInit
    /\ FormIdleInit
    /\ ReportsIdleInit
    /\ CategoriesIdleInit
    /\ StoreIdleInit
    /\ ToastIdleInit
    /\ AuthIdleInit
    /\ RenderIdleInit
    /\ SubsIdleInit
    /\ SortIdleInit
    /\ CsvIdleInit
    /\ AddIdleInit
    /\ ListIdleInit
    /\ LoadingIdleInit

SpecSignupNext ==
    /\ \/ SignupSubmit
       \/ SignupResolves
       \/ SignupRejects
    /\ UNCHANGED <<utilVars, valVars, formVars, reportVars, catVars,
                  storeVars, toastVars, authVars, renderVars, subVars,
                  sortVars, csvVars, addVars, listVars, loadingVars>>

\* the Signup form: submissions, and the signup request resolves or is
\* rejected
SpecSignup == SpecSignupInit /\ [][SpecSignupNext]_vars

SpecSortInit ==
    /\ SortInit
    /\ UtilsIdleInit
    /\ ValidateIdleInit
    /\ FormIdleInit
    /\ ReportsIdleInit
    /\ CategoriesIdleInit
    /\ StoreIdleInit
    /\ ToastIdleInit
    /\ AuthIdleInit
    /\ RenderIdleInit
    /\ SubsIdleInit
    /\ SignupIdleInit
    /\ CsvIdleInit
    /\ AddIdleInit
    /\ ListIdleInit
    /\ LoadingIdleInit

SpecSortNext ==
    /\ \/ CallSort
    /\ UNCHANGED <<utilVars, valVars, formVars, reportVars, catVars,
                  storeVars, toastVars, authVars, renderVars, subVars,
                  signupVars, csvVars, addVars, listVars, loadingVars>>

\* sortExpensesByDate applied to one input
SpecSort == SpecSortInit /\ [][SpecSortNext]_vars

SpecCsvInit ==
    /\ CsvInit
    /\ UtilsIdleInit
    /\ ValidateIdleInit
    /\ FormIdleInit
    /\ ReportsIdleInit
    /\ CategoriesIdleInit
    /\ StoreIdleInit
    /\ ToastIdleInit
    /\ AuthIdleInit
    /\ RenderIdleInit
    /\ SubsIdleInit
    /\ SignupIdleInit
    /\ SortIdleInit
    /\ AddIdleInit
    /\ ListIdleInit
    /\ LoadingIdleInit

SpecCsvNext ==
    /\ \/ ExportCsv
    /\ UNCHANGED <<utilVars, valVars, formVars, reportVars, catVars,
                  storeVars, toastVars, authVars, renderVars, subVars,
                  signupVars, sortVars, addVars, listVars, loadingVars>>

\* the CSV export of the Reports page for one filtered set
SpecCsv == SpecCsvInit /\ [][SpecCsvNext]_vars

SpecAddExpenseInit ==
    /\ AddInit
    /\ UtilsIdleInit
    /\ ValidateIdleInit
    /\ FormIdleInit
    /\ ReportsIdleInit
    /\ CategoriesIdleInit
    /\ StoreIdleInit
    /\ ToastIdleInit
    /\ AuthIdleInit
    /\ RenderIdleInit
    /\ SubsIdleInit
    /\ SignupIdleInit
    /\ SortIdleInit
    /\ CsvIdleInit
    /\ ListIdleInit
    /\ LoadingIdleInit

SpecAddExpenseNext ==
    /\ \/ AddExpenseCalled
       \/ AddDocResolves
       \/ AddDocRejects
    /\ UNCHANGED <<utilVars, valVars, formVars, reportVars, catVars,
                  storeVars, toastVars, authVars, renderVars, subVars,
                  signupVars, sortVars, csvVars, listVars, loadingVars>>

\* one addExpense call: its validation, and the write resolves or is
\* rejected
SpecAddExpense == SpecAddExpenseInit /\ [][SpecAddExpenseNext]_vars

SpecExpenseListInit ==
    /\ ListInit
    /\ UtilsIdleInit
    /\ ValidateIdleInit
    /\ FormIdleInit
    /\ ReportsIdleInit
    /\ CategoriesIdleInit
    /\ StoreIdleInit
    /\ ToastIdleInit
    /\ AuthIdleInit
    /\ RenderIdleInit
    /\ SubsIdleInit
    /\ SignupIdleInit
    /\ SortIdleInit
    /\ CsvIdleInit
    /\ AddIdleInit
    /\ LoadingIdleInit

SpecExpenseListNext ==
    /\ \/ ListAddExpense
       \/ fetchExpenses
       \/ handleDeleteClick
       \/ confirmDelete
       \/ cancelDelete
    /\ UNCHANGED <<utilVars, valVars, formVars, reportVars, catVars,
                  storeVars, toastVars, authVars, renderVars, subVars,
                  signupVars, sortVars, csvVars, addVars, loadingVars>>

\* ExpenseList over the store: expenses are added, the list is fetched, and
\* a deletion is selected, confirmed or cancelled
SpecExpenseList == SpecExpenseListInit /\ [][SpecExpenseListNext]_vars

SpecFormLoadingInit ==
    /\ FormInit
    /\ SignupInit
    /\ LoadingInit
    /\ UtilsIdleInit
    /\ ValidateIdleInit
    /\ ReportsIdleInit
    /\ CategoriesIdleInit
    /\ StoreIdleInit
    /\ ToastIdleInit
    /\ AuthIdleInit
    /\ RenderIdleInit
    /\ SubsIdleInit
    /\ SortIdleInit
    /\ CsvIdleInit
    /\ AddIdleInit
    /\ ListIdleInit

SpecFormLoadingNext ==
    /\ \/ LoginSubmit
       \/ LoginResolves
       \/ LoginRejects
       \/ SignupSubmitted
       \/ SignupSettles
       \/ ExpenseFormOpens
       \/ ExpenseFormTyped
       \/ handleSubmit
       \/ AddExpenseResolves
       \/ AddExpenseRejects
       \/ UpdateExpenseSettles
    /\ UNCHANGED <<utilVars, valVars, reportVars, catVars, storeVars,
                  toastVars, authVars, renderVars, subVars, sortVars,
                  csvVars, addVars, listVars>>

\* the Login page, the Signup page or the expense form of the Expenses page:
\* submissions, and the requests they start settle
SpecFormLoading == SpecFormLoadingInit /\ [][SpecFormLoadingNext]_vars

----------------------------------------------------------------------------
(* Claims about expenseUtils.js *)

RECURSIVE SumFn(_, _)
SumFn(f, S) ==
    IF S = {} THEN 0
    ELSE LET x == CHOOSE y \in S : TRUE
         IN  f[x] + SumFn(f, S \ {x})

\* the sum of the amount fields, a missing or null amount counting as 0
SumOfAmounts(a) ==
    SumFn([i \in 1..Len(a) |->
              IF a[i].amount.t = "number" THEN a[i].amount.n ELSE 0],
          1..Len(a))

\* C1: getTotalExpenses returns the sum of the amount fields of the records,
\* a missing or null amount counted as 0, and 0 for an empty array and for
\* null or undefined.
C1_TotalIsSumOfAmounts ==
    utilOut.done =>
        utilOut.total =
            IF input.t = "array" THEN SumOfAmounts(input.a) ELSE 0

\* a total over a record without a usable amount and a record with one
C1_Witness ==
    /\ utilOut.done
    /\ input.t = "array"
    /\ \E i, k \in 1..Len(input.a) :
          /\ input.a[i].amount \in {Undefined, Null}
          /\ input.a[k].amount.t = "number"
    /\ utilOut.total > 0

CategoriesPresent(a) == {a[i].category : i \in 1..Len(a)}

\* C4: the totals of the distinct categories present add up to the total of
\* all records, and a category that matches no record exactly (also one that
\* differs only in case) has total 0.
C4_CategoryPartition ==
    (utilOut.done /\ input.t = "array") =>
        /\ SumFn(utilOut.byCategory, CategoriesPresent(input.a)) = utilOut.total
        /\ \A c \in AskedCategories \ CategoriesPresent(input.a) :
              utilOut.byCategory[c] = 0

\* records of the categories Food and food, each with a positive total
C4_Witness ==
    /\ utilOut.done
    /\ input.t = "array"
    /\ CategoriesPresent(input.a) = {"Food", "food"}
    /\ utilOut.byCategory["Food"] > 0
    /\ utilOut.byCategory["food"] > 0

MonthsPresent(a) ==
    {MonthPrefix(a[i].date.s) : i \in {j \in 1..Len(a) : a[j].date.t = "string"}}

\* the text has the form YYYY-MM-DD
IsFullDateText(cs) ==
    /\ Len(cs) = 10
    /\ cs[5] = "-" /\ cs[8] = "-"
    /\ \A i \in {1, 2, 3, 4, 6, 7, 9, 10} :
          \E k \in 1..Len(DigitChars) : DigitChars[k] = cs[i]

AllFullyDated(a) ==
    \A i \in 1..Len(a) : a[i].date.t = "string" /\ IsFullDateText(a[i].date.s)

\* C5 as stated: for every record collection the totals of the distinct
\* months present (the YYYY-MM prefixes of the dates) add up to the total of
\* all records.
C5_MonthPartitionEveryCollection ==
    (utilOut.done /\ input.t = "array") =>
        SumFn(utilOut.byMonth, MonthsPresent(input.a)) = utilOut.total

\* C5 as amended: for every record collection in which every record has a
\* date of the form YYYY-MM-DD, the totals of the distinct months present add
\* up to the total of all records.
C5_MonthPartitionOfDatedRecords ==
    (utilOut.done /\ input.t = "array" /\ AllFullyDated(input.a)) =>
        SumFn(utilOut.byMonth, MonthsPresent(input.a)) = utilOut.total

\* fully dated records of two different months, each month with a positive total
C5_Witness ==
    /\ utilOut.done
    /\ input.t = "array"
    /\ AllFullyDated(input.a)
    /\ Cardinality(MonthsPresent(input.a)) = 2
    /\ \A m \in MonthsPresent(input.a) : utilOut.byMonth[m] > 0

----------------------------------------------------------------------------
(* Claims about validateExpense *)

\* the title has no character other than whitespace
BlankTitle(title) ==
    title.t # "string" \/ \A i \in 1..Len(title.s) : IsWhitespace(title.s[i])

\* the amount is a number greater than 0 (NaN is no number)
PositiveNumber(amount) == amount.t = "number" /\ amount.n > 0

WellTypedCandidate == candidate.title.t \in {"string", "undefined"}

\* C2: validateExpense returns a value and does not throw; the value is
\* invalid with an error about the title when the trimmed title is empty,
\* invalid with an error about the amount when the amount is not a number or
\* is <= 0, and valid for a non-empty title with a positive numeric amount.
C2_ValidateExpenseContract ==
    (validation.done /\ WellTypedCandidate) =>
        /\ ~validation.threw
        /\ BlankTitle(candidate.title) =>
              ~validation.isValid /\ validation.error = "Title is required"
        /\ ~PositiveNumber(candidate.amount) => ~validation.isValid
        /\ (~BlankTitle(candidate.title) /\ ~PositiveNumber(candidate.amount)) =>
              validation.error = "Amount must be positive"
        /\ (~BlankTitle(candidate.title) /\ PositiveNumber(candidate.amount)) =>
              validation.isValid

\* what validateExpense does keep of C2: the contract for every amount but NaN
C2_ContractForAmountsOtherThanNaN ==
    candidate.amount # NaN => C2_ValidateExpenseContract

----------------------------------------------------------------------------
(* Claims about the expense form *)

\* the day of a date text lies after the local calendar day of the clock
AfterLocalToday(cs) ==
    LET date == ParseYMD(cs)
    IN  date.ok /\ DayNumber(date.y, date.m, date.d)
                      > DayNumber(FormToday.y, FormToday.m, FormToday.d)

\* C3: every record the expense form sends to the store, in add mode and in
\* edit mode, has a non-empty trimmed title, a strictly positive numeric
\* amount, a category label and a date not later than the end of the current
\* day; for a form input violating one of these nothing reaches the store.
C3_FormWritesOnlyValidExpenses ==
    written.op # "none" =>
        /\ written.doc.title # <<>>
        /\ written.doc.title = Trim(written.doc.title)
        /\ written.doc.amount.t = "number"
        /\ written.doc.amount.n > 0
        /\ written.doc.category # ""
        /\ ParseYMD(written.doc.date).ok
        /\ ~AfterLocalToday(written.doc.date)

----------------------------------------------------------------------------
(* Claims about the Reports date filter *)

RecordsOf(a) == {a[i] : i \in 1..Len(a)}

\* two arrays hold the same records, none dropped and none added
SameRecords(a, b) == Len(a) = Len(b) /\ RecordsOf(a) = RecordsOf(b)

HasUsableDate(expense) ==
    expense.date.t = "string" /\ ParseYMD(expense.date.s).ok

\* C6: with the range 'all' the filtered set holds exactly the records of the
\* expense snapshot, whether or not their date is present or parsable; only
\* the order may differ.
C6_AllRangeKeepsEveryRecord ==
    dateFilter = "all" =>
        /\ SameRecords(filteredExpenses, snapshotDocs)
        /\ SameRecords(reportsExpenses, snapshotDocs)

C6_Witness ==
    /\ reportsPhase = "loaded"
    /\ dateFilter = "all"
    /\ \E i, j \in 1..Len(filteredExpenses) :
          /\ filteredExpenses[i].date = Undefined
          /\ filteredExpenses[j].date = Str(<<"b", "a", "d">>)
    /\ Len(snapshotDocs) = 2

\* C7: filtering the filtered set again by the same range, with the same
\* evaluation date and custom range, yields the same set of records.
C7_FilterIsIdempotent ==
    reportsPhase = "refiltered" => SameRecords(filteredExpenses, firstPass)

C7_Witness ==
    /\ reportsPhase = "refiltered"
    /\ dateFilter = "lastMonth"
    /\ Len(firstPass) = 1
    /\ Len(reportsExpenses) = 1

\* the calendar window of each range for the evaluation date `now`, stated
\* on the year, month and day of a record's date
InCalendarWindow(expense) ==
    LET date == ParseYMD(expense.date.s)
        start == ParseYMD(customDateRange.startDate)
        end == ParseYMD(customDateRange.endDate)
        day == DayNumber(date.y, date.m, date.d)
    IN  CASE dateFilter = "today" ->
                date.y = now.y /\ date.m = now.m /\ date.d = now.d
          [] dateFilter = "thisMonth" -> date.y = now.y /\ date.m = now.m
          [] dateFilter = "lastMonth" ->
                IF now.m = 1 THEN date.y = now.y - 1 /\ date.m = 12
                ELSE date.y = now.y /\ date.m = now.m - 1
          [] dateFilter = "thisYear" -> date.y = now.y
          [] dateFilter = "lastYear" -> date.y = now.y - 1
          [] dateFilter = "custom" ->
                /\ DayNumber(start.y, start.m, start.d) <= day
                /\ day <= DayNumber(end.y, end.m, end.d)

\* C8: for the evaluation date, each range other than 'all' keeps exactly the
\* records dated inside its calendar window: today, this month, the month
\* before (December of the year before in January), this year, the year
\* before, and for 'custom' startDate <= date <= endDate with both ends
\* included.
C8_RangesKeepCalendarWindows ==
    (reportsPhase = "loaded" /\ dateFilter # "all") =>
        RecordsOf(filteredExpenses) =
            {e \in RecordsOf(snapshotDocs) :
                HasUsableDate(e) /\ InCalendarWindow(e)}

C8_Witness ==
    /\ reportsPhase = "loaded"
    /\ dateFilter = "lastMonth"
    /\ now.m = 1
    /\ Len(snapshotDocs) = 2
    /\ Len(filteredExpenses) = 1
    /\ filteredExpenses[1].date = Str(FormatISO(2023, 12, 31))
    /\ \E i \in 1..2 : snapshotDocs[i].date = Str(FormatISO(2024, 1, 1))

\* C9: a record whose date is missing or unparsable is in the filtered set of
\* no range other than 'all', and filtering a collection with such a record
\* does not fault.
C9_UndatedExcludedWithoutFault ==
    /\ reportsPhase # "crashed"
    /\ dateFilter # "all" =>
          \A i \in 1..Len(filteredExpenses) : HasUsableDate(filteredExpenses[i])

\* what the filter does keep of C9: when no fault takes the page down, the
\* filtered set of a range other than 'all' has no such record
C9_UndatedExcludedUnlessFault ==
    (reportsPhase # "crashed" /\ dateFilter # "all") =>
        \A i \in 1..Len(filteredExpenses) : HasUsableDate(filteredExpenses[i])

----------------------------------------------------------------------------
(* Claims about the top category *)

CategoriesOf(a) == {a[i].category : i \in 1..Len(a)}

AllAmountsNumbers(a) == \A i \in 1..Len(a) : a[i].amount.t = "number"

CategorySum(a, c) ==
    SumFn([i \in {j \in 1..Len(a) : a[j].category = c} |-> a[i].amount.n],
          {j \in 1..Len(a) : a[j].category = c})

FirstIndexOf(a, c) == CHOOSE i \in 1..Len(a) :
    a[i].category = c /\ \A j \in 1..(i - 1) : a[j].category # c

\* the category with the largest sum, the first encountered among several
LargestCategory(a) ==
    CHOOSE c \in CategoriesOf(a) :
        \A o \in CategoriesOf(a) \ {c} :
            \/ CategorySum(a, c) > CategorySum(a, o)
            \/ /\ CategorySum(a, c) = CategorySum(a, o)
               /\ FirstIndexOf(a, c) < FirstIndexOf(a, o)

\* C10 on the Reports page
ReportsTopIsLargest ==
    reportsPhase = "loaded" =>
        IF filteredExpenses = <<>>
        THEN getTopCategory(filteredExpenses).topCategory = NoCategory
        ELSE /\ getTopCategory(filteredExpenses).topCategory.found
             /\ AllAmountsNumbers(filteredExpenses) =>
                   getTopCategory(filteredExpenses).topCategory
                       = Category(LargestCategory(filteredExpenses))

\* C10 on the overview
OverviewTopIsLargest ==
    reportsPhase = "unmounted" =>
        \A name \in topCategoryNames(overviewExpenses) :
            IF overviewExpenses = <<>> THEN name = "None"
            ELSE /\ name \in CategoriesOf(overviewExpenses)
                 /\ AllAmountsNumbers(overviewExpenses) =>
                       name = LargestCategory(overviewExpenses)

\* C10: the top category is the category with the strictly largest summed
\* amount, the first encountered one when several tie for the largest sum;
\* it is null / 'None' for the empty collection and a category for every
\* collection that is not empty.
C10_TopCategoryIsLargestSum == ReportsTopIsLargest /\ OverviewTopIsLargest

\* what getTopCategory does keep of C10: the rule for collections in which
\* some category has a sum above 0
C10_ReportsTopWhenSomeSumPositive ==
    (reportsPhase = "loaded" /\ AllAmountsNumbers(filteredExpenses)
        /\ \E c \in CategoriesOf(filteredExpenses) :
              CategorySum(filteredExpenses, c) > 0) =>
        getTopCategory(filteredExpenses).topCategory
            = Category(LargestCategory(filteredExpenses))

----------------------------------------------------------------------------
(* Claims about the monthly data *)

\* every record has a date of the form YYYY-MM-DD and a numeric amount
WellFormedRecords(a) ==
    \A i \in 1..Len(a) : HasUsableDate(a[i]) /\ a[i].amount.t = "number"

\* the calendar months present in the records, as <<year, month>>
TrendMonths(a) ==
    {<<ParseYMD(a[i].date.s).y, ParseYMD(a[i].date.s).m>> : i \in 1..Len(a)}

MonthSum(a, ym) ==
    LET of == {i \in 1..Len(a) :
                  <<ParseYMD(a[i].date.s).y, ParseYMD(a[i].date.s).m>> = ym}
    IN  SumFn([i \in of |-> a[i].amount.n], of)

\* the series is the monthly trend of the records: one entry per month
\* present, its amount the sum of the month, in ascending calendar order
IsTrendOf(series, a) ==
    /\ Len(series) = Cardinality(TrendMonths(a))
    /\ \A ym \in TrendMonths(a) :
          \E i \in 1..Len(series) :
              /\ series[i].month = formatMonthYear(DateOf(ym[1], ym[2], 1, 0))
              /\ series[i].amount = Num(MonthSum(a, ym))
    /\ \A i, j \in 1..Len(series) :
          i < j =>
              LET x == ParseMonthYear(series[i].month)
                  y == ParseMonthYear(series[j].month)
              IN  x.y < y.y \/ (x.y = y.y /\ x.m < y.m)

ReportsTrendIsMonthly ==
    (reportsPhase = "loaded" /\ WellFormedRecords(filteredExpenses)) =>
        /\ ~reportsMonthlyData(filteredExpenses).threw
        /\ \A series \in reportsMonthlyData(filteredExpenses).series :
              IsTrendOf(series, filteredExpenses)

OverviewTrendIsMonthly ==
    (reportsPhase = "unmounted" /\ WellFormedRecords(overviewExpenses)) =>
        \A series \in overviewMonthlyData(overviewExpenses, clock.utcOffset) :
            IsTrendOf(series, overviewExpenses)

\* C11: the monthly trend has exactly one entry per calendar month present in
\* the records, each entry is the sum of the amounts of that month, and the
\* entries are in ascending chronological order, also across a year boundary.
C11_MonthlyTrendPerMonthAscending ==
    ReportsTrendIsMonthly /\ OverviewTrendIsMonthly

\* what the two functions do keep of C11: the entries and their sums on the
\* Reports page, and on the overview in a time zone not west of UTC; the
\* order is left to the engine's parsing of the labels
C11_TrendEntriesUpToOrder ==
    LET Entries(series) == {series[i] : i \in 1..Len(series)}
        Expected(a) == {[month |-> formatMonthYear(DateOf(ym[1], ym[2], 1, 0)),
                         amount |-> Num(MonthSum(a, ym))] : ym \in TrendMonths(a)}
    IN  /\ (reportsPhase = "loaded" /\ WellFormedRecords(filteredExpenses)) =>
              \A series \in reportsMonthlyData(filteredExpenses).series :
                  Entries(series) = Expected(filteredExpenses)
        /\ (reportsPhase = "unmounted" /\ WellFormedRecords(overviewExpenses)
               /\ clock.utcOffset >= 0) =>
              \A series \in overviewMonthlyData(overviewExpenses, clock.utcOffset) :
                  Entries(series) = Expected(overviewExpenses)

----------------------------------------------------------------------------
(* Claims about the category breakdown and the category lists *)

RECURSIVE SumPercents(_)
SumPercents(cards) ==
    IF cards = <<>> THEN 0
    ELSE SumPercents(SubSeq(cards, 1, Len(cards) - 1)) + cards[Len(cards)].percent

\* the percentages of the cards sum to 100 up to the rounding of one decimal
\* per card (half a tenth each) when the total is above 0, and are all 0
\* when the total is 0
CardsSumTo100(cards, total) ==
    IF JsGreater(total, Num(0))
    THEN /\ 2 * (SumPercents(cards) - 1000) <= Len(cards)
         /\ 2 * (1000 - SumPercents(cards)) <= Len(cards)
    ELSE \A i \in 1..Len(cards) : cards[i].percent = 0

\* C12: in the category breakdown of the Categories page the percentages of
\* all displayed cards sum to 100 (up to rounding) whenever the total is
\* greater than 0, and every percentage is 0 when the total is 0, for every
\* combination of default categories, custom categories and expenses.
C12_CardPercentagesSumTo100 ==
    CardsSumTo100(categoryCards(customCategories, categoriesExpenses),
                  totalSpent(customCategories, categoriesExpenses))

NamesDistinct(all) ==
    \A i, j \in 1..Len(all) : all[i] = all[j] => i = j

\* what the cards do keep of C12: the rule when no two categories of the
\* list have the same name
C12_PercentagesWhenNamesDistinct ==
    NamesDistinct(allCategories(customCategories)) => C12_CardPercentagesSumTo100

\* the category list of the PDF report keeps the rule of C12 for records
\* with numeric amounts
C12_PdfPercentagesSumTo100 ==
    (reportsPhase = "loaded" /\ AllAmountsNumbers(filteredExpenses)) =>
        CardsSumTo100(pdfCategoryLines(filteredExpenses),
                      totalAmount(filteredExpenses))

----------------------------------------------------------------------------
(* Claims about the faults of the Reports aggregates *)

\* C13: computing the aggregates of the Reports page (total, average,
\* category data, monthly data, top category) over the filtered set faults
\* for no snapshot, also not under the range 'all' with a record that has no
\* date, an unparsable date or no amount, and the total stays a number.
C13_AggregatesNeverFault ==
    reportsPhase = "loaded" =>
        /\ ~reportsMonthlyData(filteredExpenses).threw
        /\ totalAmount(filteredExpenses).t = "number"
        /\ averageIsNumber(filteredExpenses)

\* what the aggregates do keep of C13: no fault and a numeric total when
\* every record has a parsable date and an amount
C13_AggregatesOfWellFormedRecords ==
    WellFormedRecords(filteredExpenses) => C13_AggregatesNeverFault

----------------------------------------------------------------------------
(* Claims about the merged category lists *)

\* no custom category of the merged list has the name of a default one
CollidingCustomSuppressed(all) ==
    \A i \in (Len(defaultCategories) + 1)..Len(all) : ~IsDefaultName(all[i])

\* C19: in every merged category list shown to the user (the selector of the
\* expense form, the overview, the Categories page) a custom category with
\* the name of a default category is suppressed, so that the list never has
\* two entries with the same name.
C19_MergedListsSuppressCollisions ==
    /\ CollidingCustomSuppressed(formAllCategories(customCategories))
    /\ CollidingCustomSuppressed(overviewAllCategories(customCategories))
    /\ CollidingCustomSuppressed(allCategories(customCategories))
    /\ NamesDistinct(formAllCategories(customCategories))
    /\ NamesDistinct(overviewAllCategories(customCategories))
    /\ NamesDistinct(allCategories(customCategories))

\* what the lists do keep of C19: the selector of the expense form has no
\* custom category with a default name, and no list drops a custom category
\* with a name of its own
C19_FormListSuppressesCollisions ==
    /\ CollidingCustomSuppressed(formAllCategories(customCategories))
    /\ \A i \in 1..Len(customCategories) :
          ~IsDefaultName(customCategories[i]) =>
              \E j \in 1..Len(formAllCategories(customCategories)) :
                  formAllCategories(customCategories)[j] = customCategories[i]


----------------------------------------------------------------------------
(* Claims about the database service *)

\* the listener of a user has just been handed a snapshot
SnapshotDeliveredTo(u) ==
    /\ listeners[u] = "active"
    /\ listeners'[u] = "active"
    /\ Len(inbox'[u]) < Len(inbox[u])

C14_NoDeletedDocumentInLaterSnapshot ==
    [][\A u \in Users :
          SnapshotDeliveredTo(u) =>
              \A r \in delivered'[u].snapshot :
                  r.doc \notin {expenseRef(c.user, c.doc) : c \in resolvedDeletes}]_vars

\* a snapshot delivered to a user holds only records created under that user
SnapshotsHoldOwnRecords ==
    \A u \in Users : \A r \in delivered[u].snapshot : r.creator = u

\* an update or delete issued for a user leaves the records of the others
WritesChangeOwnRecords ==
    \A userId \in Users, expenseId \in DocIds :
        (updateExpenseOf(userId, expenseId) \/ deleteExpenseCallOf(userId, expenseId)) =>
            \A d \in storeDocs : d.creator # userId => d \in storeDocs'

\* C17: a snapshot delivered to a subscription of user A never contains a
\* record created under user B, and an update or delete issued for user A
\* never changes a record of user B
C17_NoCrossUserVisibility ==
    /\ []SnapshotsHoldOwnRecords
    /\ [][WritesChangeOwnRecords]_vars

\* both users have a record, A has been handed a snapshot with its record,
\* and a delete B issued for the id of A's record has resolved
C17_Witness ==
    /\ \E r \in delivered["A"].snapshot : r.doc.doc = 1
    /\ \E d \in storeDocs : d.creator = "A" /\ d.ref.doc = 1
    /\ \E d \in storeDocs : d.creator = "B"
    /\ [user |-> "B", doc |-> 1] \in resolvedDeletes

----------------------------------------------------------------------------
(* Claims about the notifications of the Expenses page *)

\* the store is called only by a handler the user started
NoAutomaticRetry ==
    [][storeCalls' # storeCalls =>
          \E w \in PageWrites :
              /\ w \notin pendingWrites
              /\ pendingWrites' = pendingWrites \cup {w}
              /\ storeCalls' = [storeCalls EXCEPT ![w] = @ + 1]]_vars

\* C18: a write of the Expenses page the store rejected is shown as an
\* error notification that is rendered and that its timer or a close
\* dismisses, and the write is not issued again automatically
C18_RejectedWriteShowsErrorToast ==
    /\ [](pageToast = "error" =>
            toastView["Expenses"].element /\ toastView["Expenses"].timer)
    /\ NoAutomaticRetry

\* what holds: a rejected write sets the error toast in the state of the
\* page and is not issued again automatically
C18_RejectedWriteSetsToastWithoutRetry ==
    /\ [][PageWriteRejected => pageToast' = "error"]_vars
    /\ NoAutomaticRetry

----------------------------------------------------------------------------
(* Claims about route protection *)

\* C20: the content of a protected route is rendered only while currentUser
\* is non-null; with no authenticated user the route yields the redirect to
\* /login, and nothing guarded is rendered before the first auth-state
\* callback has been received
C20_RouteProtected ==
    \A v \in RouteVariants :
        /\ routeView[v] = "children" => currentUser # NoAuthUser
        /\ loading => routeView[v] = "nothing"
        /\ (~loading /\ currentUser = NoAuthUser) =>
              /\ routeView[v] \in {"redirect", "unmounted"}
              /\ location = "/login"

\* the listener has reported that no user is signed in, nothing awaits it,
\* and both routes have redirected to /login
C20_Witness ==
    /\ ~loading
    /\ currentUser = NoAuthUser
    /\ authState = NoAuthUser
    /\ authQueue = <<>>
    /\ routeView = [v \in RouteVariants |-> "redirect"]

----------------------------------------------------------------------------
(* Claims about the renders of the Reports page *)

\* the filtered set a render shows is the one of the snapshot and range the
\* render holds
PaintedIsCurrent ==
    LET run == filterExpenses(painted.held, painted.range, customDateRange)
    IN  (~painted.crashed /\ ~run.threw) => SameRecords(painted.filtered, run.filtered)

\* C15: no render of the Reports page shows a filtered set or aggregates
\* derived from an older snapshot or range than the ones it holds; after a
\* sequence of snapshots and filter changes the result shown is the one of
\* the last snapshot and the current filter
C15_NoRenderShowsOlderSnapshot == PaintedIsCurrent

\* what holds: once the effect of the last render has run, the filtered set
\* shown is the one of the last snapshot and the current range
C15_SettledRenderShowsLastSnapshot ==
    (~effectPending /\ ReportsAlive) =>
        /\ painted.held = reportsExpenses
        /\ painted.range = dateFilter
        /\ painted.filtered = filteredExpenses
        /\ SameRecords(painted.held, snapshotDocs)
        /\ PaintedIsCurrent

----------------------------------------------------------------------------
(* Claims about unsubscribing *)

\* C16: the cleanup of a subscription can run any number of times, also
\* when the subscription was never established, without raising an error,
\* and after the first cleanup no callback of the subscription updates the
\* state of the component
C16_CleanupIsSafe == ~cleanupError /\ ~lateUpdate

\* the cleanup of Expenses has run twice, and the cleanup of ExpenseForm
\* has run although its set-up threw
C16_Witness ==
    /\ subs["Expenses"].runs = 2
    /\ subs["Expenses"].listeners = <<"closed", "closed">>
    /\ subs["ExpenseForm"].runs >= 1
    /\ subs["ExpenseForm"].handles = <<"noop">>

----------------------------------------------------------------------------
(* Claims about the Signup form *)

\* the password has at least 8 characters, an uppercase letter, a lowercase
\* letter and a digit, and equals the confirmation
AcceptablePassword(submitted) ==
    /\ Len(submitted.password) >= 8
    /\ \E i \in 1..Len(submitted.password) : submitted.password[i] \in UpperCaseChars
    /\ \E i \in 1..Len(submitted.password) : submitted.password[i] \in LowerCaseChars
    /\ \E i \in 1..Len(submitted.password) : submitted.password[i] \in DigitCharSet
    /\ submitted.password = submitted.confirmPassword

----------------------------------------------------------------------------
(* Claims about sortExpensesByDate *)

\* the result holds the records of the input, each once
IsPermutationOfInput ==
    sortInput.t = "array" =>
        /\ Len(sortOut.out) = Len(sortInput.a)
        /\ RecordsOf(sortOut.out) = RecordsOf(sortInput.a)

\* the records with a date are in the result from the newest to the oldest
NewestFirst ==
    \A i, j \in 1..Len(sortOut.out) :
        (i < j /\ ~DateKey(sortOut.out[i]).nan /\ ~DateKey(sortOut.out[j]).nan)
            => DateKey(sortOut.out[i]).day >= DateKey(sortOut.out[j]).day

AllDatesParse == \A i \in 1..Len(sortInput.a) : ~DateKey(sortInput.a[i]).nan

----------------------------------------------------------------------------
(* Claims about the CSV export *)

\* row i read back has the four fields of expense i
RowReadsBack(i) ==
    LET fields == CsvFieldsOf(csvContent[i + 1])
        expense == csvExpenses[i]
    IN  /\ Len(fields) = 4
        /\ fields[1] = expense.date.s
        /\ fields[2] = expense.category
        /\ fields[3] = expense.title.s
        /\ fields[4] = toFixed2(expense.amount)
        /\ Len(fields[4]) >= 4 /\ fields[4][Len(fields[4]) - 2] = "."

\* C23: the CSV export has one row per filtered expense after the header,
\* and every row read back as CSV has the four fields date, category, title
\* and amount, the amount with 2 decimal places, also when the title or the
\* category holds a comma or a quote
C23_CsvRowsReadBack ==
    csvContent # <<>> =>
        /\ Len(csvContent) = Len(csvExpenses) + 1
        /\ \A i \in 1..Len(csvExpenses) : RowReadsBack(i)

\* what holds: one row per filtered expense, and the row reads back when
\* the title holds no quote and the category no comma and no quote
C23_CsvRowsOfPlainTextReadBack ==
    csvContent # <<>> =>
        /\ Len(csvContent) = Len(csvExpenses) + 1
        /\ \A i \in 1..Len(csvExpenses) :
              (/\ \A k \in 1..Len(csvExpenses[i].title.s) : csvExpenses[i].title.s[k] # Quote
               /\ \A k \in 1..Len(csvExpenses[i].category) :
                     csvExpenses[i].category[k] \notin {Quote, Comma})
                  => RowReadsBack(i)

----------------------------------------------------------------------------
(* Claims about addExpense *)

IsMissing(v) == v \in {Undefined, Null}

\* C24: addExpense resolves with the new document id only if exactly one
\* document with the data, userId, createdAt and updatedAt was written under
\* users/{userId}/expenses; with a missing userId, title, amount, category
\* or date no write is attempted and the call rejects; when the write fails
\* the call rejects with an error that carries the message of the store
C24_AddExpenseWritesOnceOrRejects ==
    /\ addCall.state = "resolved" =>
          /\ Len(addWritten) = 1
          /\ addAttempts = 1
          /\ addWritten[1].id = addCall.id
          /\ addWritten[1].collection = addArgs.userId
          /\ addWritten[1].data.userId = addArgs.userId
          /\ \A f \in {"title", "amount", "category", "date"} :
                addWritten[1].data[f] = addArgs.expenseData[f]
          /\ addWritten[1].data.createdAt = "serverTimestamp"
          /\ addWritten[1].data.updatedAt = "serverTimestamp"
    /\ (addCall.state # "idle"
          /\ (IsMissing(addArgs.userId)
                \/ \E f \in {"title", "amount", "category", "date"} :
                      IsMissing(addArgs.expenseData[f]))) =>
          /\ addCall.state = "rejected"
          /\ addAttempts = 0
          /\ addWritten = <<>>
    /\ (addCall.state = "rejected" /\ addAttempts = 1) =>
          /\ addCall.cause \in StoreMessages
          /\ addWritten = <<>>

\* a call with all fields has resolved after its write
C24_Witness ==
    /\ addCall.state = "resolved"
    /\ Len(addWritten) = 1
    /\ addArgs.expenseData.amount = Num(100)

----------------------------------------------------------------------------
(* Claims about ExpenseList and the one-shot read *)

\* C25: confirming the deletion of the selected expense deletes it from the
\* store and removes it from the displayed list, and in the success and in
\* the failure outcome the modal is closed and expenseToDelete is null
C25_ConfirmedDeleteRemovesExpense ==
    /\ [](\A id \in confirmedDeletes :
             /\ id \notin {e.id : e \in listExpenses}
             /\ id \notin {d.id : d \in topLevelDocs \cup userDocs})
    /\ [][confirmedDeletes' # confirmedDeletes =>
             ~showDeleteModal' /\ expenseToDelete' = NoExpense]_vars

\* what holds: after the deletion was confirmed the modal is closed and
\* expenseToDelete is null
C25_ConfirmClosesModal ==
    [][(showDeleteModal /\ ~showDeleteModal') => expenseToDelete' = NoExpense]_vars

\* C26: after addExpense(userId, data) has resolved with id X, a later
\* getExpenses(userId) returns a list with a record of id X
C26_ReadYourWrites == readBack.addedBefore \subseteq readBack.ids

\* what holds: getExpenses(userId) returns the documents of the collection
\* expenses whose userId field is userId
C26_ReadsTopLevelCollection ==
    [][readBack' # readBack =>
          readBack'.ids = {d.id : d \in {x \in topLevelDocs : x.userId = ListUser}}]_vars

----------------------------------------------------------------------------
(* Claims about the snapshot held by the Reports page *)

\* the expenses array the filter run of this step was given
SnapshotBeforeFilter == IF reportsPhase = "mounted" THEN snapshotDocs' ELSE reportsExpenses

\* C27: running the Reports filter never modifies the held expense snapshot:
\* for every range, 'all' included, the content and the order of the expenses
\* array are the same after filterExpenses as before it
C27_FilterKeepsSnapshot ==
    [][reportsPhase' = "loaded" => reportsExpenses' = SnapshotBeforeFilter]_vars

\* what holds: the filter keeps the records of the held snapshot, and keeps
\* their order under every range but 'all'
C27_FilterKeepsSnapshotUnlessAll ==
    [][reportsPhase' = "loaded" =>
          /\ SameRecords(reportsExpenses', SnapshotBeforeFilter)
          /\ dateFilter' # "all" => reportsExpenses' = SnapshotBeforeFilter]_vars

----------------------------------------------------------------------------
(* Claims about the category chart and the total *)

\* the expenses whose category is in the list of known categories
OfKnownCategory(all, a) ==
    LET Known(expense) == \E i \in 1..Len(all) : all[i] = expense.category
    IN  SelectSeq(a, Known)

\* C28: in every state of the Dashboard overview and of the Categories page,
\* whatever the order in which expense and category snapshots arrived, the
\* values of the category chart sum to the total of all expenses of the
\* expense snapshot
C28_ChartSumIsTotal ==
    /\ totalSpent(customCategories, categoriesExpenses) = totalAmount(categoriesExpenses)
    /\ SumEntries(overviewCategoryData(customCategories, categoriesExpenses))
          = totalAmount(categoriesExpenses)

\* what holds: the values of the chart sum to the total of the expenses
\* whose category is in the known list
C28_ChartSumIsTotalOfKnown ==
    /\ totalSpent(customCategories, categoriesExpenses)
          = totalAmount(OfKnownCategory(allCategories(customCategories),
                                        categoriesExpenses))
    /\ SumEntries(overviewCategoryData(customCategories, categoriesExpenses))
          = totalAmount(OfKnownCategory(overviewAllCategories(customCategories),
                                        categoriesExpenses))

----------------------------------------------------------------------------
(* Claims about the two top-category computations *)

\* the collection held by the page shown
HeldSpending == IF reportsPhase = "loaded" THEN filteredExpenses ELSE overviewExpenses

NonNegativeAmounts(a) ==
    \A i \in 1..Len(a) : a[i].amount.t = "number" /\ a[i].amount.n >= 0

\* the top category as the Reports page shows it: topCategory ? topCategory : 'None'
ReportsTopName(a) ==
    LET top == getTopCategory(a).topCategory
    IN  IF top.found THEN top.name ELSE "None"

\* C29: for every collection of expense records with amounts >= 0, the top
\* category name of the overview and the top category of the Reports page
\* under the range 'all' are the same, and both are 'None' on the same
\* collections
C29_TopCategoriesAgree ==
    (reportsPhase \in {"loaded", "unmounted"} /\ NonNegativeAmounts(HeldSpending)) =>
        topCategoryNames(HeldSpending) = {ReportsTopName(HeldSpending)}

\* what holds: the two agree on the empty collection and on every collection
\* in which some category has a sum above 0
C29_TopCategoriesAgreeWhenSomeSumPositive ==
    (/\ reportsPhase \in {"loaded", "unmounted"}
     /\ NonNegativeAmounts(HeldSpending)
     /\ \/ HeldSpending = <<>>
        \/ \E c \in CategoriesOf(HeldSpending) : CategorySum(HeldSpending, c) > 0) =>
        topCategoryNames(HeldSpending) = {ReportsTopName(HeldSpending)}

----------------------------------------------------------------------------
(* Claims about the loading flags *)

LoadingOf(f) ==
    CASE f = "Login" -> loginLoading
      [] f = "Signup" -> signupLoading
      [] f = "ExpenseForm" -> formLoading

InFlight(f) ==
    CASE f = "Login" -> loginRequest = "pending"
      [] f = "Signup" -> signupRequest.state = "pending"
      [] f = "ExpenseForm" -> formRequest = "pending"

\* loading is true exactly while the request of the form is in flight
LoadingOnlyInFlight == \A f \in SubmitForms : LoadingOf(f) <=> InFlight(f)

\* navigation to /dashboard only after the request resolved
DashboardOnlyAfterResolve ==
    /\ loginPath = "/dashboard" => loginRequest = "resolved"
    /\ signupPath = "/dashboard" => signupRequest.state = "resolved"

\* loading of the form submitted in this step, after the step
SubmittedFormLoads ==
    CASE lastSubmit'.form = "Login" -> loginLoading'
      [] lastSubmit'.form = "Signup" -> signupLoading'
      [] lastSubmit'.form = "ExpenseForm" -> formLoading'

\* C30: for the login, signup and expense forms loading becomes true when a
\* valid submission starts, stays false when validation rejects the
\* submission, is true only while the request is in flight and false after
\* it settled; /dashboard is reached only after the login or signup request
\* resolved
C30_LoadingWhileInFlight ==
    /\ [](LoadingOnlyInFlight /\ DashboardOnlyAfterResolve)
    /\ [][submitTick' # submitTick =>
             (SubmittedFormLoads <=> lastSubmit'.valid)]_vars

\* the same, the expense form in edit mode set apart: its handler awaits
\* nothing, and loading is false when it returns
C30_LoadingWhileInFlightButEdit ==
    /\ [](LoadingOnlyInFlight /\ DashboardOnlyAfterResolve)
    /\ [][submitTick' # submitTick =>
             (SubmittedFormLoads <=>
                 (lastSubmit'.valid /\ lastSubmit'.mode # "edit"))]_vars

C30_Witness ==
    /\ lastSubmit = [form |-> "ExpenseForm", mode |-> "edit", valid |-> TRUE]
    /\ updateCall = "pending"
    /\ ~formLoading

========================================================================
